---- MODULE Spec2Model ----
(***************************************************************************)
(* InboxerAI: the resumable Gmail ingestion pipeline.                      *)
(*                                                                         *)
(*   - the ingest state store        (src/lib/ingest-state.ts)             *)
(*   - the state endpoint            (src/app/api/ingest/state/route.ts)   *)
(*   - the vector store upsert stage (src/lib/qdrant.ts,                   *)
(*                                    src/unnamed/part_002)                *)
(*   - the thread enumerator         (src/lib/google-auth.ts,              *)
(*                                    src/app/api/gmail/threads/list)      *)
(*   - the LLM extraction call       (src/lib/ingest-state.ts, 196-321)    *)
(*   - the preview / ingest round    (src/components/                      *)
(*                                    initial-ingest-panel.tsx)            *)
(*                                                                         *)
(* Strings the code inspects (thread ids, questions, answers, rules) are   *)
(* sequences of one-character strings, so that the empty string is <<>>,   *)
(* and trim / toLowerCase / concatenation are computed, not assumed.       *)
(***************************************************************************)
EXTENDS Integers, Sequences, FiniteSets, TLC

VARIABLES
    now,        \* the wall clock read by new Date()
    doc,        \* data/ingest-state.json as parsed JSON, or NoDoc
    returned,   \* what the last state-store call returned to its caller
    supplied,   \* history: every thread id handed to the store so far
    collectionName, \* process.env.QDRANT_COLLECTION
    qdrant,     \* the collection of that name in Qdrant, or NoCollection
    upsertLog,  \* history: the last request served by the upsert route
    latest,     \* history: per (threadId, question), the item upserted last
    mailbox,    \* the pages users.threads.list serves, in order
    listLog,    \* history: the last request served by the thread-list route
    llmOutput,  \* how the LLM call of an extraction ends: its output_text
    extraction, \* what extractQuestionsAndAnswersFromThread made of it
    threadOutcome, \* per thread id, what fetching and extracting it meets
    settings,   \* the panel's concurrency setting and preview limit
    panel,      \* the ingest panel: its state, refs and the running pool
    rounds,     \* history: one record per preview the panel has started
    previewLog, \* the last response of the server-side preview route
    callers,    \* the calls into the state store that are under way
    gmailMessage, \* the payload of a Gmail message: a tree of MIME parts, or Null
    messageBody, \* what extractMessageBody made of it
    abortSignal, \* whether the operator has asked the running round to stop
    authLog,    \* the last request to a route that asks for a Google session
    syncPanel,  \* the manual sync panel: its threads, its pool and its result
    fetchRun,   \* a call of fetchAllGmailThreadIds: its locals and its requests
    oauth       \* the browser's two Google cookies and the last OAuth request

storeVars == <<now, doc, returned, supplied>>
upsertVars == <<now, collectionName, qdrant, upsertLog, latest>>
listVars == <<doc, mailbox, listLog>>
extractVars == <<llmOutput, extraction, threadOutcome,
                    settings, panel, rounds, previewLog>>
roundVars == <<threadOutcome, settings, panel, rounds, previewLog>>
vars == <<now, doc, returned, supplied, collectionName, qdrant, upsertLog, latest,
          mailbox, listLog, llmOutput, extraction,
          threadOutcome, settings, panel, rounds, previewLog, callers,
          gmailMessage, messageBody, abortSignal, authLog, syncPanel, fetchRun,
          oauth>>
\* the variables of the components specified further down
callerVars == <<callers>>
bodyVars == <<gmailMessage, messageBody>>
abortVars == <<abortSignal>>
authVars == <<authLog>>
syncVars == <<syncPanel>>
fetchVars == <<fetchRun>>
oauthVars == <<oauth>>
laterVars == <<callerVars, bodyVars, abortVars, authVars, syncVars, fetchVars,
              oauthVars>>

-----------------------------------------------------------------------------
(* Bounds of the model                                                     *)

MaxClock == 2       \* the clock is read at most at instants 1..MaxClock
MaxBatch == 2       \* longest array of thread ids a caller supplies

-----------------------------------------------------------------------------
(* JavaScript values                                                       *)

Undefined == [k |-> "undefined"]
Null == [k |-> "null"]
Str(s) == [k |-> "string", s |-> s]
\* new Date(t).toISOString(): a non-empty string that names the instant t
Iso(t) == [k |-> "string", iso |-> t]
\* a finite number, kept in halves so that Math.floor has something to do
Half(h) == [k |-> "number", c |-> "finite", h |-> h]
Num(n) == Half(2 * n)
NaN == [k |-> "number", c |-> "NaN"]
Infinity == [k |-> "number", c |-> "Infinity"]
Arr(a) == [k |-> "array", a |-> a]

IsArray(v) == v.k = "array"
IsNumber(v) == v.k = "number"
IsString(v) == v.k = "string"
IsFinite(v) == IsNumber(v) /\ v.c = "finite"

\* Boolean(v)
Truthy(v) ==
    CASE v.k = "undefined" -> FALSE
      [] v.k = "null" -> FALSE
      [] v.k = "string" -> IF "s" \in DOMAIN v THEN v.s # <<>> ELSE TRUE
      [] v.k = "number" -> v.c = "Infinity" \/ (v.c = "finite" /\ v.h # 0)
      [] OTHER -> TRUE

\* Math.floor
Floor(v) == IF IsFinite(v) THEN Half(2 * (v.h \div 2)) ELSE v

\* what JSON.parse(JSON.stringify(v)) gives for one property value: a
\* property holding undefined is dropped, a non-finite number is written null
JsonValue(v) == IF IsNumber(v) /\ ~IsFinite(v) THEN Null ELSE v

\* a thread id is a string; Boolean(id) is false for the empty string
TruthyId(id) == id # <<>>

Range(s) == { s[i] : i \in DOMAIN s }

\* Array.from(new Set(a)): first occurrences, in insertion order
RECURSIVE Dedup(_)
Dedup(a) ==
    IF a = <<>> THEN <<>>
    ELSE LET front == Dedup(SubSeq(a, 1, Len(a) - 1))
             last == a[Len(a)]
         IN IF last \in Range(front) THEN front ELSE Append(front, last)

\* set.add(id) for every truthy id of ids, on new Set(base)
AddAllTruthy(base, ids) == Dedup(Dedup(base) \o SelectSeq(ids, TruthyId))

-----------------------------------------------------------------------------
(* The state store: src/lib/ingest-state.ts                                *)

NoDoc == [k |-> "ENOENT"]

StateFields ==
    { "processedThreadIds", "historyId", "totalThreadsDetected",
      "lastFullIngestAt", "lastPreviewAt", "lastUpdatedAt", "rules",
      "previewMaxThreads" }

\* an object with none of the state's properties
EmptyPartial == [f \in StateFields |-> Undefined]

defaultState ==
    [EmptyPartial EXCEPT !.processedThreadIds = Arr(<<>>),
                         !.rules = Str(<<>>),
                         !.previewMaxThreads = Null]

normalizePositiveInteger(value) ==
    IF ~IsNumber(value) THEN Null
    ELSE LET normalized == Floor(value)
         IN IF ~IsFinite(normalized) \/ normalized.h <= 0
            THEN Null
            ELSE normalized

\* normalizeState handing the rules on as they were found
normalizeStateKeepingRules(partial) ==
    [ processedThreadIds |->
          IF IsArray(partial.processedThreadIds)
          THEN Arr(Dedup(SelectSeq(partial.processedThreadIds.a, TruthyId)))
          ELSE Arr(<<>>),
      historyId |-> partial.historyId,
      totalThreadsDetected |-> partial.totalThreadsDetected,
      lastFullIngestAt |-> partial.lastFullIngestAt,
      lastPreviewAt |-> partial.lastPreviewAt,
      lastUpdatedAt |-> partial.lastUpdatedAt,
      rules |-> partial.rules,
      previewMaxThreads |-> normalizePositiveInteger(partial.previewMaxThreads) ]

normalizeState(partial) ==
    [ processedThreadIds |->
          IF IsArray(partial.processedThreadIds)
          THEN Arr(Dedup(SelectSeq(partial.processedThreadIds.a, TruthyId)))
          ELSE Arr(<<>>),
      historyId |-> partial.historyId,
      totalThreadsDetected |-> partial.totalThreadsDetected,
      lastFullIngestAt |-> partial.lastFullIngestAt,
      lastPreviewAt |-> partial.lastPreviewAt,
      lastUpdatedAt |-> partial.lastUpdatedAt,
      rules |-> IF IsString(partial.rules) THEN partial.rules ELSE Str(<<>>),
      previewMaxThreads |-> normalizePositiveInteger(partial.previewMaxThreads) ]

\* mergeState with the id array assigned instead of unioned
mergeStateReplacingIds(current, update) ==
    IF IsArray(update.processedThreadIds)
    THEN [current EXCEPT !.processedThreadIds = update.processedThreadIds]
    ELSE current

\* mergeState assigning historyId and rules whether or not the update has them
mergeStateAssigning(current, update) ==
    [current EXCEPT !.historyId = update.historyId,
                    !.rules = IF IsString(update.rules)
                              THEN update.rules ELSE Str(<<>>)]

mergeState(current, update) ==
    LET m1 == IF Truthy(update.historyId)
              THEN [current EXCEPT !.historyId = update.historyId]
              ELSE current
        m2 == IF IsNumber(update.totalThreadsDetected)
              THEN [m1 EXCEPT !.totalThreadsDetected = update.totalThreadsDetected]
              ELSE m1
        m3 == IF Truthy(update.lastFullIngestAt)
              THEN [m2 EXCEPT !.lastFullIngestAt = update.lastFullIngestAt]
              ELSE m2
        m4 == IF Truthy(update.lastPreviewAt)
              THEN [m3 EXCEPT !.lastPreviewAt = update.lastPreviewAt]
              ELSE m3
        m5 == IF IsArray(update.processedThreadIds)
              THEN [m4 EXCEPT !.processedThreadIds =
                        Arr(AddAllTruthy(m4.processedThreadIds.a,
                                         update.processedThreadIds.a))]
              ELSE m4
        m6 == IF update.rules # Undefined
              THEN [m5 EXCEPT !.rules =
                        IF update.rules = Null THEN Str(<<>>) ELSE update.rules]
              ELSE m5
        m7 == IF update.previewMaxThreads # Undefined
              THEN [m6 EXCEPT !.previewMaxThreads =
                        IF update.previewMaxThreads = Null
                        THEN Null
                        ELSE normalizePositiveInteger(update.previewMaxThreads)]
              ELSE m6
    IN m7

\* readIngestState on the file content d: ENOENT gives a copy of defaultState
readIngestState(d) == IF d = NoDoc THEN defaultState ELSE normalizeState(d)

\* writeIngestState without the assignment to normalized.lastUpdatedAt
writeIngestStateWithoutStamp(state, t) ==
    LET normalized == normalizeState(state)
    IN [f \in StateFields |-> JsonValue(normalized[f])]

\* the file content writeIngestState(state) leaves at instant t
writeIngestState(state, t) ==
    LET normalized == [normalizeState(state) EXCEPT !.lastUpdatedAt = Iso(t)]
    IN [f \in StateFields |-> JsonValue(normalized[f])]

\* updateIngestState(update) on file content d at instant t:
\* the file it leaves and the value it returns
updateIngestState(d, update, t) ==
    LET current == readIngestState(d)
        merged == mergeState(current, update)
    IN [file |-> writeIngestState(merged, t), ret |-> merged]

\* addProcessedThreads without the `if (id)` test
addProcessedThreadsKeepingEmpty(d, threadIds, t) ==
    LET state == readIngestState(d)
        state2 == [state EXCEPT
                     !.processedThreadIds =
                         Arr(Dedup(state.processedThreadIds.a \o threadIds.a)),
                     !.lastFullIngestAt = Iso(t)]
    IN [file |-> [f \in StateFields |-> JsonValue(state2[f])], ret |-> state2]

\* addProcessedThreads(threadIds) on file content d at instant t
addProcessedThreads(d, threadIds, t) ==
    IF ~IsArray(threadIds) \/ Len(threadIds.a) = 0
    THEN [file |-> d, ret |-> readIngestState(d)]
    ELSE LET state == readIngestState(d)
             state2 == [state EXCEPT
                          !.processedThreadIds =
                              Arr(AddAllTruthy(state.processedThreadIds.a,
                                               threadIds.a)),
                          !.lastFullIngestAt = Iso(t)]
         IN [file |-> writeIngestState(state2, t), ret |-> state2]

summarizeState(state) ==
    [ processedThreads |-> Len(state.processedThreadIds.a),
      historyId |-> IF state.historyId \in {Undefined, Null}
                    THEN Null ELSE state.historyId,
      totalThreadsDetected |-> IF state.totalThreadsDetected \in {Undefined, Null}
                               THEN Null ELSE state.totalThreadsDetected,
      lastFullIngestAt |-> IF state.lastFullIngestAt \in {Undefined, Null}
                           THEN Null ELSE state.lastFullIngestAt,
      lastPreviewAt |-> IF state.lastPreviewAt \in {Undefined, Null}
                        THEN Null ELSE state.lastPreviewAt,
      lastUpdatedAt |-> IF state.lastUpdatedAt \in {Undefined, Null}
                        THEN Null ELSE state.lastUpdatedAt,
      rules |-> IF state.rules \in {Undefined, Null}
                THEN Str(<<>>) ELSE state.rules,
      previewMaxThreads |-> IF IsNumber(state.previewMaxThreads)
                            THEN state.previewMaxThreads ELSE Null ]

\* POST /api/ingest/state with the parsed body, on file content d; the two
\* writes happen at instants t1 <= t2
statePOST(d, body, t1, t2) ==
    LET first == IF IsArray(body.processedThreadIds)
                    /\ Len(body.processedThreadIds.a) > 0
                 THEN addProcessedThreads(d, body.processedThreadIds, t1)
                 ELSE [file |-> d, ret |-> readIngestState(d)]
        upd == [EmptyPartial EXCEPT
                  !.historyId = body.historyId,
                  !.totalThreadsDetected = body.totalThreadsDetected,
                  !.lastFullIngestAt = body.lastFullIngestAt,
                  !.lastPreviewAt = body.lastPreviewAt,
                  !.rules = IF body.rules # Undefined
                            THEN (IF body.rules = Null THEN Str(<<>>) ELSE body.rules)
                            ELSE Undefined,
                  !.previewMaxThreads = body.previewMaxThreads]
        second == updateIngestState(first.file, upd, t2)
    IN [file |-> second.file, ret |-> summarizeState(second.ret)]

-----------------------------------------------------------------------------
(* Callers of the state store, one call after another                      *)

IdA == <<"a">>
IdB == <<"b">>
EmptyId == <<>>
ThreadIds == {IdA, IdB}

\* the arrays of ids a caller can hand over: repeats, any order, empty ids
IdBatches == UNION { [1..n -> ThreadIds \cup {EmptyId}] : n \in 0..MaxBatch }

\* arrays of ids as the panel sends them: none, one id, a repeat around an
\* empty id
PanelBatches == { <<>>, <<IdA>>, <<IdB, EmptyId, IdB>> }

\* the instants a call that starts now can read from the clock
Instants == { t \in {now, now + 1} : t <= MaxClock }

UpdateInputs ==
    { [EmptyPartial EXCEPT !.processedThreadIds = Arr(ids)] : ids \in PanelBatches }
    \cup { [EmptyPartial EXCEPT !.historyId = v] : v \in {Str(<<"h">>), Str(<<>>)} }
    \cup { [EmptyPartial EXCEPT !.totalThreadsDetected = v] : v \in {Num(5), NaN} }
    \cup { [EmptyPartial EXCEPT !.lastFullIngestAt = Iso(now)],
           [EmptyPartial EXCEPT !.lastPreviewAt = Iso(now)] }
    \cup { [EmptyPartial EXCEPT !.rules = v] : v \in {Str(<<"r">>), Str(<<>>), Null} }
    \cup { [EmptyPartial EXCEPT !.previewMaxThreads = v] :
              v \in {Num(3), Half(5), Num(0), Null} }

\* bodies the panel's syncIngestState sends, and malformed ones
PostBodies ==
    { [EmptyPartial EXCEPT !.processedThreadIds = Arr(ids),
                           !.lastFullIngestAt = Iso(now),
                           !.totalThreadsDetected = Null] : ids \in PanelBatches }
    \cup { [EmptyPartial EXCEPT !.lastPreviewAt = Iso(now),
                                !.totalThreadsDetected = v] : v \in {Null, Num(5)} }
    \cup { [EmptyPartial EXCEPT !.rules = v] : v \in {Str(<<"r">>), Null} }
    \cup { [EmptyPartial EXCEPT !.previewMaxThreads = v] :
              v \in {Num(3), Infinity} }
    \cup { [EmptyPartial EXCEPT !.processedThreadIds = Str(<<>>)], EmptyPartial }

IdsOf(v) == IF IsArray(v) THEN Range(v.a) ELSE {}

\* the persisted processed ids, as the array the file holds and as a set
ProcessedArray == IF doc = NoDoc THEN <<>> ELSE doc.processedThreadIds.a
ProcessedSet == Range(ProcessedArray)

AddProcessedThreadsCall ==
    \E ids \in IdBatches, t \in Instants :
        LET r == addProcessedThreads(doc, Arr(ids), t)
        IN /\ doc' = r.file
           /\ returned' = r.ret
           /\ supplied' = supplied \cup Range(ids)
           /\ now' = t

UpdateCall ==
    \E update \in UpdateInputs, t \in Instants :
        LET r == updateIngestState(doc, update, t)
        IN /\ doc' = r.file
           /\ returned' = r.ret
           /\ supplied' = supplied \cup IdsOf(update.processedThreadIds)
           /\ now' = t

StatePostCall ==
    \E body \in PostBodies, t1 \in Instants :
        \E t2 \in { t \in {t1, t1 + 1} : t <= MaxClock } :
            LET r == statePOST(doc, body, t1, t2)
            IN /\ doc' = r.file
               /\ returned' = r.ret
               /\ supplied' = supplied \cup IdsOf(body.processedThreadIds)
               /\ now' = t2

StateGetCall ==
    /\ returned' = summarizeState(readIngestState(doc))
    /\ UNCHANGED <<now, doc, supplied>>

-----------------------------------------------------------------------------
(* Calls into the state store that overlap: each await of                  *)
(* updateIngestState and addProcessedThreads is a step of its own          *)

\* file contents readIngestState cannot load: text JSON.parse rejects with a
\* SyntaxError, and the text `null`, on which normalizeState raises a
\* TypeError; neither error carries code ENOENT
BadJson == [k |-> "SyntaxError"]
NullJson == [k |-> "TypeError"]
Unloadable == { BadJson, NullJson }

\* readIngestState rethrowing every failure of readFile, ENOENT included
readIngestStateRethrowingAll(d, io) ==
    IF io # "ok" \/ d = NoDoc \/ d \in Unloadable
    THEN [threw |-> TRUE, state |-> Undefined]
    ELSE [threw |-> FALSE, state |-> normalizeState(d)]

\* readIngestState with a catch that answers every failure with the default
readIngestStateSwallowingAll(d, io) ==
    IF io # "ok" \/ d = NoDoc \/ d \in Unloadable
    THEN [threw |-> FALSE, state |-> defaultState]
    ELSE [threw |-> FALSE, state |-> normalizeState(d)]

\* readIngestState as awaited by a caller: io is "ok", or the code of a
\* failure of readFile other than ENOENT, which is rethrown, as is what
\* JSON.parse or normalizeState throws
readIngestStateAwaited(d, io) ==
    IF io # "ok" \/ d \in Unloadable
    THEN [threw |-> TRUE, state |-> Undefined]
    ELSE IF d = NoDoc
         THEN [threw |-> FALSE, state |-> defaultState]
         ELSE [threw |-> FALSE, state |-> normalizeState(d)]

\* the write-back of a call that reads the file again before it writes
writeBackRereading(c, d, t) ==
    IF c.op = "updateIngestState"
    THEN LET merged == mergeState(readIngestState(d), c.arg)
         IN [file |-> writeIngestState(merged, t), ret |-> merged]
    ELSE LET state == readIngestState(d)
             state2 == [state EXCEPT
                          !.processedThreadIds =
                              Arr(AddAllTruthy(state.processedThreadIds.a, c.arg.a)),
                          !.lastFullIngestAt = Iso(t)]
         IN [file |-> writeIngestState(state2, t), ret |-> state2]

\* the write-back of an update that merges into the defaults, not into what
\* it read
writeBackFromDefaults(c, d, t) ==
    IF c.op = "updateIngestState"
    THEN LET merged == mergeState(defaultState, c.arg)
         IN [file |-> writeIngestState(merged, t), ret |-> merged]
    ELSE LET state == c.current
             state2 == [state EXCEPT
                          !.processedThreadIds =
                              Arr(AddAllTruthy(state.processedThreadIds.a, c.arg.a)),
                          !.lastFullIngestAt = Iso(t)]
         IN [file |-> writeIngestState(state2, t), ret |-> state2]

\* what a call does after its read has resolved with c.current: the file it
\* writes at instant t over the content d, and the value it returns
writeBack(c, d, t) ==
    IF c.op = "updateIngestState"
    THEN LET merged == mergeState(c.current, c.arg)
         IN [file |-> writeIngestState(merged, t), ret |-> merged]
    ELSE LET state == c.current
             state2 == [state EXCEPT
                          !.processedThreadIds =
                              Arr(AddAllTruthy(state.processedThreadIds.a, c.arg.a)),
                          !.lastFullIngestAt = Iso(t)]
         IN [file |-> writeIngestState(state2, t), ret |-> state2]

\* a call that has not started
Call(op, arg) ==
    [op |-> op, arg |-> arg, pc |-> "start", current |-> Undefined,
     before |-> Undefined, met |-> "", result |-> Undefined,
     seen |-> 0, wrote |-> 0]

\* the writes to the file so far
Writes == Cardinality({ i \in DOMAIN callers : callers[i].wrote > 0 })

\* addProcessedThreads returns the read itself when it is handed no ids
ReturnsTheRead(c) ==
    \/ c.op = "readIngestState"
    \/ c.op = "addProcessedThreads" /\ (~IsArray(c.arg) \/ Len(c.arg.a) = 0)

\* a call's readIngestState resolves or rejects; before, met and seen record
\* the file it found, readFile's answer and the writes that preceded it
CallerReads ==
    \E i \in DOMAIN callers, io \in {"ok", "EACCES"} :
        LET c == [callers[i] EXCEPT !.before = doc, !.met = io, !.seen = Writes]
            r == readIngestStateAwaited(doc, io)
        IN /\ c.pc = "start"
           /\ callers' = [callers EXCEPT ![i] =
                  IF r.threw
                  THEN [c EXCEPT !.pc = "threw"]
                  ELSE IF ReturnsTheRead(c)
                  THEN [c EXCEPT !.pc = "done", !.current = r.state,
                                 !.result = r.state]
                  ELSE [c EXCEPT !.pc = "read", !.current = r.state]]
           /\ UNCHANGED <<now, doc, returned, supplied>>

\* a call's writeIngestState resolves and the call returns
CallerWrites ==
    \E i \in DOMAIN callers, t \in Instants :
        LET c == callers[i]
        IN /\ c.pc = "read"
           /\ \E w \in { writeBack(c, doc, t) } :
                 /\ doc' = w.file
                 /\ returned' = w.ret
                 /\ callers' = [callers EXCEPT ![i] =
                        [c EXCEPT !.pc = "done", !.result = w.ret,
                                  !.wrote = Writes + 1]]
           /\ supplied' = supplied \cup IdsOf(IF c.op = "updateIngestState"
                                              THEN c.arg.processedThreadIds
                                              ELSE c.arg)
           /\ now' = t

\* a persisted document with every field set, and one edited by hand
FullDoc ==
    writeIngestState([processedThreadIds |-> Arr(<<IdA>>),
                      historyId |-> Str(<<"g">>),
                      totalThreadsDetected |-> Num(7),
                      lastFullIngestAt |-> Iso(0),
                      lastPreviewAt |-> Iso(0),
                      lastUpdatedAt |-> Undefined,
                      rules |-> Str(<<"q">>),
                      previewMaxThreads |-> Num(4)], 0)

EditedDoc ==
    [EmptyPartial EXCEPT !.processedThreadIds = Arr(<<IdB, EmptyId, IdB>>),
                         !.rules = Null,
                         !.previewMaxThreads = Half(7)]

\* documents that parse as objects but whose properties are not what
\* writeIngestState writes: of the wrong type, out of range, or not the
\* state's own
MangledDoc ==
    [processedThreadIds |-> Str(<<"a">>),
     historyId |-> Undefined,
     totalThreadsDetected |-> Undefined,
     lastFullIngestAt |-> Undefined,
     lastPreviewAt |-> Undefined,
     lastUpdatedAt |-> Undefined,
     rules |-> Num(3),
     previewMaxThreads |-> Num(0),
     legacy |-> Str(<<"x">>)]

LooseDoc ==
    [EmptyPartial EXCEPT !.processedThreadIds = Null,
                         !.totalThreadsDetected = Str(<<"7">>),
                         !.rules = Arr(<<>>),
                         !.previewMaxThreads = Str(<<"5">>)]

NegativeDoc ==
    [EmptyPartial EXCEPT !.processedThreadIds = Arr(<<IdA>>),
                         !.rules = Str(<<"q">>),
                         !.previewMaxThreads = Half(0 - 3)]

MangledDocs == { MangledDoc, LooseDoc, NegativeDoc }

CallDocs == { NoDoc, FullDoc, EditedDoc } \cup Unloadable \cup MangledDocs

\* updates that supply several fields at once
WideUpdates ==
    { [EmptyPartial EXCEPT !.processedThreadIds = Arr(<<IdB>>),
                           !.lastFullIngestAt = Iso(now)],
      [EmptyPartial EXCEPT !.lastPreviewAt = Iso(now),
                           !.totalThreadsDetected = Num(5)],
      [EmptyPartial EXCEPT !.rules = Str(<<"r">>),
                           !.previewMaxThreads = Num(3),
                           !.historyId = Str(<<"h">>)],
      EmptyPartial }

\* the calls one caller can make
Calls ==
    { Call("readIngestState", Undefined) }
    \cup { Call("updateIngestState", u) : u \in UpdateInputs \cup WideUpdates }
    \cup { Call("addProcessedThreads", Arr(ids)) : ids \in PanelBatches }

\* the calls two racing callers make
RacingCalls ==
    { Call("updateIngestState", u) :
          u \in { [EmptyPartial EXCEPT !.processedThreadIds = Arr(<<IdA>>)],
                  [EmptyPartial EXCEPT !.rules = Str(<<"r">>)],
                  [EmptyPartial EXCEPT !.lastPreviewAt = Iso(now)] } }
    \cup { Call("addProcessedThreads", Arr(ids)) : ids \in { <<IdB>>, <<IdA, IdB>> } }

-----------------------------------------------------------------------------
(* A write into the state store, await by await: writeIngestState reads the *)
(* clock after `await ensureStateDir()` and the content lands when          *)
(* `await fs.writeFile(...)` resolves                                       *)

\* a call that has not started; state is what it hands to writeIngestState,
\* fullAt the instant addProcessedThreads put into lastFullIngestAt, file the
\* content given to writeFile, stampedAt the instant in its lastUpdatedAt,
\* landed the number of writes that had landed when the clock was read
Writer(op, arg) ==
    [op |-> op, arg |-> arg, pc |-> "start", current |-> Undefined,
     before |-> Undefined, met |-> "", result |-> Undefined,
     seen |-> 0, wrote |-> 0, state |-> Undefined, fullAt |-> 0,
     file |-> Undefined, stampedAt |-> 0, landed |-> 0]

\* the state updateIngestState or addProcessedThreads hands to
\* writeIngestState once its read has resolved with current, at instant t
stateToWrite(op, arg, current, t) ==
    IF op = "updateIngestState"
    THEN mergeState(current, arg)
    ELSE [current EXCEPT
            !.processedThreadIds =
                Arr(AddAllTruthy(current.processedThreadIds.a, arg.a)),
            !.lastFullIngestAt = Iso(t)]

\* the read resolves and the call runs on to `await ensureStateDir()`
WriterReads ==
    \E i \in DOMAIN callers, t \in Instants :
        LET c == [callers[i] EXCEPT !.before = doc, !.met = "ok", !.seen = Writes]
            r == readIngestStateAwaited(doc, "ok")
        IN /\ c.pc = "start"
           /\ callers' = [callers EXCEPT ![i] =
                  IF r.threw
                  THEN [c EXCEPT !.pc = "threw"]
                  ELSE [c EXCEPT !.pc = "mkdir", !.current = r.state,
                                 !.state = stateToWrite(c.op, c.arg, r.state, t),
                                 !.fullAt = t]]
           /\ now' = t
           /\ UNCHANGED <<doc, returned, supplied>>

\* ensureStateDir resolves: writeIngestState normalises, reads the clock
\* and calls writeFile
WriterStamps ==
    \E i \in DOMAIN callers, t \in Instants :
        LET c == callers[i]
        IN /\ c.pc = "mkdir"
           /\ callers' = [callers EXCEPT ![i] =
                  [c EXCEPT !.pc = "writeFile",
                            !.file = writeIngestState(c.state, t),
                            !.stampedAt = t,
                            !.landed = Writes]]
           /\ now' = t
           /\ UNCHANGED <<doc, returned, supplied>>

\* writeFile resolves, in whatever order the file system completes the
\* writes under way, and the call returns
WriterLands ==
    \E i \in DOMAIN callers :
        LET c == callers[i]
        IN /\ c.pc = "writeFile"
           /\ doc' = c.file
           /\ returned' = c.state
           /\ callers' = [callers EXCEPT ![i] =
                  [c EXCEPT !.pc = "done", !.result = c.state,
                            !.wrote = Writes + 1]]
           /\ supplied' = supplied \cup IdsOf(IF c.op = "updateIngestState"
                                              THEN c.arg.processedThreadIds
                                              ELSE c.arg)
           /\ UNCHANGED now

\* the writing calls two callers make
Writers ==
    { Writer("updateIngestState", u) :
          u \in { [EmptyPartial EXCEPT !.processedThreadIds = Arr(<<IdA>>)],
                  [EmptyPartial EXCEPT !.rules = Str(<<"r">>)],
                  [EmptyPartial EXCEPT !.lastFullIngestAt = Iso(now)] } }
    \cup { Writer("addProcessedThreads", Arr(ids)) : ids \in { <<IdB>>, <<IdA, IdB>> } }

-----------------------------------------------------------------------------
(* The vector store: src/lib/qdrant.ts                                     *)

NoCollection == [k |-> "absent"]

\* createHash("sha1").update(message).digest("hex"): the digest is a fixed
\* function of the message; SHA-1 is taken as collision-free, so the digest
\* stands for the message it was computed from and for nothing else
Sha1Hex(message) == [sha1 |-> message]

\* a point id from crypto.randomUUID() instead of the hash
createRandomPointId(threadId, question) ==
    [uuid |-> Sha1Hex(threadId \o <<":">> \o question), random |-> now]

\* a point id that numbers the points in the order they are stored
createSerialPointId(threadId, question) ==
    [uuid |-> Sha1Hex(threadId \o <<":">> \o question),
     serial |-> IF qdrant = NoCollection THEN 0
                ELSE Cardinality(DOMAIN qdrant.points)]

\* the first 32 hex digits of the digest, regrouped 8-4-4-4-12
createStablePointId(threadId, question) ==
    [uuid |-> Sha1Hex(threadId \o <<":">> \o question)]

\* String(message).includes("Not found"), on a message held in pieces
IncludesNotFound(message) == \E i \in DOMAIN message : message[i] = "Not found"

MismatchMessage(collection, existingSize, vectorSize) ==
    <<"Qdrant collection \"">> \o collection
        \o <<"\" vector size (", ToString(existingSize),
             ") does not match embedding size (", ToString(vectorSize), ").">>

\* client.getCollection(collection) against the store q: the size it reports,
\* or the error it throws (io: the transport failed)
getCollection(q, io) ==
    IF io THEN [ok |-> FALSE, status |-> Num(500),
                message |-> <<"Internal Server Error">>]
    ELSE IF q = NoCollection
         THEN [ok |-> FALSE, status |-> Num(404), message |-> <<"Not Found">>]
         ELSE [ok |-> TRUE, size |-> q.size]

\* client.createCollection(collection, {vectors: {size, distance}}): Qdrant
\* refuses to create a collection that exists
createCollection(q, vectorSize, io) ==
    IF io \/ q # NoCollection
    THEN [ok |-> FALSE, store |-> q]
    ELSE [ok |-> TRUE, store |-> [size |-> vectorSize, points |-> << >>]]

\* ensureQdrantCollection(client, collection, vectorSize): whether it returned
\* or threw, the store it leaves and the client calls it issued; io names the
\* client call on which the transport fails, if any
ensureQdrantCollection(q, collection, vectorSize, io) ==
    LET existing == getCollection(q, io = "getCollection")
        \* the error the catch block sees: the one getCollection threw, or
        \* the mismatch error thrown inside the try block
        caught ==
            IF ~existing.ok
            THEN [status |-> existing.status, message |-> existing.message]
            ELSE [status |-> Null,
                  message |-> MismatchMessage(collection, existing.size, vectorSize)]
        returnsEarly == existing.ok /\ existing.size = vectorSize
        rethrows == caught.status # Num(404) /\ ~IncludesNotFound(caught.message)
        created == createCollection(q, vectorSize, io = "createCollection")
    IN IF returnsEarly
       THEN [ok |-> TRUE, store |-> q, calls |-> {"getCollection"}]
       ELSE IF rethrows
            THEN [ok |-> FALSE, store |-> q, calls |-> {"getCollection"}]
            ELSE [ok |-> created.ok, store |-> created.store,
                  calls |-> {"getCollection", "createCollection"}]

\* client.upsert(collection, {points, wait: true}): the collection maps
\* point ids to points; the batch is written in order, a later point
\* replacing an earlier one of the same id; a vector of another size than
\* the collection's is refused
RECURSIVE PutAll(_, _)
PutAll(stored, points) ==
    IF points = <<>> THEN stored
    ELSE LET p == Head(points)
         IN PutAll([id \in DOMAIN stored \cup {p.id} |->
                       IF id = p.id THEN p ELSE stored[id]],
                   Tail(points))

\* io: "upsert" when the request is lost on its way, "upsertReply" when the
\* write is done and its reply is lost; either way the client throws
upsertPoints(q, points, io) ==
    IF io = "upsert" \/ q = NoCollection
       \/ \E i \in DOMAIN points : points[i].vector.size # q.size
    THEN [ok |-> FALSE, store |-> q]
    ELSE [ok |-> io # "upsertReply",
          store |-> [q EXCEPT !.points = PutAll(q.points, points)]]

\* POST <qdrant>/collections/<name>/points/count, as GET /api/qdrant/stats
\* reports it
PointCount == IF qdrant = NoCollection THEN 0 ELSE Cardinality(DOMAIN qdrant.points)

-----------------------------------------------------------------------------
(* The upsert route: src/unnamed/part_002, POST                            *)

\* embedTexts(inputs): one vector per input, each of the model's size
embedTexts(inputs, size) ==
    [i \in DOMAIN inputs |-> [size |-> size, of |-> inputs[i]]]

ValidItem(item) ==
    TruthyId(item.threadId) /\ item.question # <<>> /\ item.answer # <<>>

\* the route on the parsed body's items, with the embedding call ending as
\* embed says (it throws, returns no vector, or returns vectors of the
\* model's size) and the transport failing on the client call io, at
\* instant t:
\* the response status, the store left behind and the client calls issued
upsertPOST(q, collection, bodyItems, embed, io, t) ==
    LET items == SelectSeq(bodyItems, ValidItem)
        inputs == [i \in DOMAIN items |->
                     <<"Question: ">> \o items[i].question
                        \o <<"\nAnswer: ">> \o items[i].answer]
        embeddings == embedTexts(inputs, embed.size)
        ensured == ensureQdrantCollection(q, collection, embed.size, io)
        points == [i \in DOMAIN items |->
                     [id |-> createStablePointId(items[i].threadId, items[i].question),
                      vector |-> embeddings[i],
                      payload |-> [threadId |-> items[i].threadId,
                                   question |-> items[i].question,
                                   answer |-> items[i].answer,
                                   createdAt |-> items[i].createdAt,
                                   ingestedAt |-> Iso(t)]]]
        written == upsertPoints(ensured.store, points, io)
    IN IF Len(items) = 0
       THEN [status |-> 400, store |-> q, calls |-> {}, size |-> 0]
       ELSE IF embed.k # "vectors"
       THEN [status |-> 500, store |-> q, calls |-> {}, size |-> 0]
       ELSE IF ~ensured.ok
       THEN [status |-> 500, store |-> ensured.store, calls |-> ensured.calls,
             size |-> embed.size]
       ELSE [status |-> IF written.ok THEN 200 ELSE 500,
             store |-> written.store,
             calls |-> ensured.calls \cup {"upsert"},
             size |-> embed.size]

\* the items callers submit: valid ones, the same pair with another answer,
\* and items the route's filter drops
QuestionA == <<"w", "h", "o", "?">>
QuestionB == <<"w", "h", "y", "?">>
AnswerYes == <<"y", "e", "s">>
AnswerNo == <<"n", "o">>
AnswerUnknown == <<"U", "n", "k", "n", "o", "w", "n">>

Item(threadId, question, answer) ==
    [threadId |-> threadId, question |-> question, answer |-> answer,
     createdAt |-> Null]

ItemYes == Item(IdA, QuestionA, AnswerYes)
ItemNo == Item(IdA, QuestionA, AnswerNo)
ItemOther == Item(IdB, QuestionA, AnswerYes)
ItemNoAnswer == Item(IdA, QuestionA, <<>>)
ItemNoThread == Item(EmptyId, QuestionB, AnswerYes)
ItemUnknown == Item(IdB, QuestionB, AnswerUnknown)

\* the request bodies: no item, one item, an item twice, one pair with two
\* answers in either order, two pairs, dropped items alone and among others,
\* an item whose answer says that there is none
ItemBatches ==
    { <<>>, <<ItemYes>>, <<ItemNo>>, <<ItemOther>>, <<ItemNoAnswer>>,
      <<ItemYes, ItemYes>>, <<ItemYes, ItemNo>>, <<ItemNo, ItemYes>>,
      <<ItemYes, ItemOther>>, <<ItemNoThread, ItemOther, ItemNoAnswer>>,
      <<ItemUnknown>> }

\* sizes of the embedding model's vectors
EmbeddingSizes == {1536, 3072}

Vectors(size) == [k |-> "vectors", size |-> size]

\* how the calls a request makes to its collaborators end
UpsertInputs ==
    [embed : { Vectors(n) : n \in EmbeddingSizes }, io : {"none"}]
    \cup [embed : { Vectors(1536) },
          io : {"getCollection", "createCollection", "upsert", "upsertReply"}]
    \cup [embed : { [k |-> "throws"], [k |-> "empty"] }, io : {"none"}]

PairOf(item) == <<item.threadId, item.question>>

\* the history of latest items after items were written at instant t; each
\* entry also counts, up to 2, how often its item was written in a row
RECURSIVE Record(_, _, _)
Record(log, items, t) ==
    IF items = <<>> THEN log
    ELSE LET item == Head(items)
             again == PairOf(item) \in DOMAIN log
                      /\ log[PairOf(item)].answer = item.answer
             entry == [answer |-> item.answer, at |-> t,
                       times |-> IF again THEN 2 ELSE 1]
         IN Record([p \in DOMAIN log \cup {PairOf(item)} |->
                       IF p = PairOf(item) THEN entry ELSE log[p]],
                   Tail(items), t)

UpsertRequest ==
    \E bodyItems \in ItemBatches, in \in UpsertInputs, t \in Instants :
        LET r == upsertPOST(qdrant, collectionName, bodyItems, in.embed, in.io, t)
        IN /\ qdrant' = r.store
           /\ upsertLog' = [flip |-> ~upsertLog.flip, status |-> r.status,
                            calls |-> r.calls, size |-> r.size]
           /\ latest' = IF "upsert" \in r.calls /\ in.io # "upsert"
                         THEN Record(latest, SelectSeq(bodyItems, ValidItem), t)
                         ELSE latest
           /\ now' = t
           /\ UNCHANGED collectionName

CollectionNames == { <<"inbox-qa">>, <<"Not found">> }

\* items whose thread id ends, or whose question starts, with the ':' that
\* createStablePointId puts between the two
IdColon == <<"a", ":">>
QuestionColon == <<":", "w", "h", "o", "?">>
SeparatorItems ==
    { Item(IdA, QuestionA, AnswerYes), Item(IdA, QuestionColon, AnswerYes),
      Item(IdColon, QuestionA, AnswerNo), Item(IdColon, QuestionColon, AnswerNo),
      Item(IdB, QuestionColon, AnswerYes) }
SeparatorBatches ==
    { <<item>> : item \in SeparatorItems }
    \cup { <<Item(IdA, QuestionA, AnswerYes), Item(IdB, QuestionColon, AnswerYes)>> }

\* a request to the upsert route with such items; embeddings and the store
\* answer normally
UpsertSeparatorRequest ==
    \E bodyItems \in SeparatorBatches, t \in Instants :
        LET r == upsertPOST(qdrant, collectionName, bodyItems, Vectors(1536), "none", t)
        IN /\ qdrant' = r.store
           /\ upsertLog' = [flip |-> ~upsertLog.flip, status |-> r.status,
                            calls |-> r.calls, size |-> r.size]
           /\ latest' = Record(latest, SelectSeq(bodyItems, ValidItem), t)
           /\ now' = t
           /\ UNCHANGED collectionName

-----------------------------------------------------------------------------
(* The thread enumerator: src/lib/google-auth.ts, fetchAllGmailThreadIds,  *)
(* and src/app/api/gmail/threads/list/route.ts, POST                       *)

DefaultMaxThreads == 200
OverfetchMargin == 200

Min(a, b) == IF a <= b THEN a ELSE b
Max(a, b) == IF a >= b THEN a ELSE b

\* the do-while loop from page i on, with ids collected so far: the ids it
\* returns and the number of pages it requested. Page i carries a
\* nextPageToken exactly when a page i + 1 exists.
RECURSIVE FetchPages(_, _, _, _)
FetchPages(pages, i, ids, maxThreads) ==
    LET pageIds == SelectSeq(pages[i], TruthyId)
        all == ids \o pageIds
    IN IF Len(all) >= maxThreads
       THEN [ids |-> SubSeq(all, 1, maxThreads), requests |-> i]
       ELSE IF i < Len(pages)
            THEN FetchPages(pages, i + 1, all, maxThreads)
            ELSE [ids |-> all, requests |-> i]

fetchAllGmailThreadIds(pages, maxThreads) == FetchPages(pages, 1, <<>>, maxThreads)

\* Number(process.env.INITIAL_INGEST_MAX_THREADS ?? "200")
EnvMaxThreadsRaw(env) == IF env = Undefined THEN Num(DefaultMaxThreads) ELSE env

\* lines 41-56 of the route: the limit a request resolves to, a whole number
ResolveMaxThreads(requested, env) ==
    LET envMaxThreadsRaw == EnvMaxThreadsRaw(env)
        resolved == IF IsNumber(requested) /\ IsFinite(requested) /\ requested.h > 0
                    THEN requested
                    ELSE IF IsFinite(envMaxThreadsRaw) /\ envMaxThreadsRaw.h > 0
                         THEN envMaxThreadsRaw
                         ELSE Num(DefaultMaxThreads)
    IN Max(1, Floor(resolved).h \div 2)

\* the route without the overfetch, as before the processed set was consulted
FetchLimitWithoutOverfetch(maxThreads, processedCount) == maxThreads

FetchLimit(maxThreads, processedCount) ==
    maxThreads + processedCount + OverfetchMargin

\* the route returning the candidates as fetched
Unfiltered(candidates, processedSet) == candidates

\* candidates.filter((id) => !processedSet.has(id))
Unprocessed(candidates, processedSet) ==
    SelectSeq(candidates, LAMBDA id : id \notin processedSet)

\* the route, for a request with or without a decodable session cookie, on
\* state file d and the mailbox's pages; io: the Gmail call fails
listPOST(d, pages, session, requested, env, io) ==
    LET maxThreads == ResolveMaxThreads(requested, env)
        state == readIngestState(d)
        processedSet == Range(state.processedThreadIds.a)
        fetchLimit == FetchLimit(maxThreads, Cardinality(processedSet))
        fetched == fetchAllGmailThreadIds(pages, fetchLimit)
        remaining == Unprocessed(fetched.ids, processedSet)
        threadIds == SubSeq(remaining, 1, Min(maxThreads, Len(remaining)))
    IN IF ~session
       THEN [status |-> 401, threadIds |-> <<>>, maxThreads |-> 0,
             processedCount |-> 0, requests |-> 0]
       ELSE IF io
       THEN [status |-> 500, threadIds |-> <<>>, maxThreads |-> 0,
             processedCount |-> 0, requests |-> 1]
       ELSE [status |-> 200, threadIds |-> threadIds, maxThreads |-> maxThreads,
             processedCount |-> Cardinality(processedSet),
             requests |-> fetched.requests]

IdC == <<"c">>
IdD == <<"d">>

\* mailboxes: the pages of the INBOX listing, each thread id once
Mailboxes ==
    { << <<>> >>,
      << <<IdA>> >>,
      << <<IdA, IdB>> >>,
      << <<IdB>>, <<IdA>> >>,
      << <<IdA, IdB>>, <<IdC>> >>,
      << <<IdC>>, <<>>, <<IdB, IdA>> >>,
      << <<IdA>>, <<IdB>>, <<IdC>>, <<IdD>> >> }

\* body.maxThreads as the panel and other callers send it
RequestedLimits == { Undefined, Num(1), Num(2), Half(5), Num(0), Half(1), Null }

ListRequest ==
    \E session \in BOOLEAN, requested \in RequestedLimits,
       env \in {Undefined, Num(3), NaN}, io \in BOOLEAN :
        LET r == listPOST(doc, mailbox, session, requested, env, io)
        IN /\ listLog' = [flip |-> ~listLog.flip, status |-> r.status,
                          threadIds |-> r.threadIds, maxThreads |-> r.maxThreads,
                          processedCount |-> r.processedCount,
                          requests |-> r.requests]
           /\ UNCHANGED <<doc, mailbox>>

\* state files earlier rounds have left: none, or one written by
\* addProcessedThreads
PersistedDocs ==
    { NoDoc }
    \cup { addProcessedThreads(NoDoc, Arr(ids), 1).file :
             ids \in { <<IdA>>, <<IdB>>, <<IdB, IdA>>, <<IdC, IdA>>, <<IdD>>,
                       <<IdA, IdB, IdC>> } }

\* the candidate pool: every id the mailbox's pages enumerate
CandidatePool == UNION { Range(mailbox[i]) : i \in DOMAIN mailbox }

-----------------------------------------------------------------------------
(* fetchAllGmailThreadIds, request by request: src/lib/google-auth.ts      *)

\* pageToken undefined; the token that asks for page i of the listing is i
NoToken == 0

\* response.data.nextPageToken of page i: present exactly when a page follows
nextPageToken(pages, i) == IF i < Len(pages) THEN i + 1 ELSE NoToken

\* no call under way
FetchAtRest ==
    [pc |-> "idle", maxThreads |-> 0, ids |-> <<>>, pageToken |-> NoToken,
     result |-> <<>>, asked |-> <<>>]

\* the call up to its first await; asked records, for every request of
\* users.threads.list, the token it carried and the ids collected before it
fetchCall(maxThreads) ==
    [pc |-> "awaiting", maxThreads |-> maxThreads, ids |-> <<>>,
     pageToken |-> NoToken, result |-> <<>>,
     asked |-> <<[pageToken |-> NoToken, collected |-> 0]>>]

\* the loop body without the test against maxThreads
pageArrivesWithoutLimit(f, pages) ==
    LET i == IF f.pageToken = NoToken THEN 1 ELSE f.pageToken
        ids == f.ids \o SelectSeq(pages[i], TruthyId)
        next == nextPageToken(pages, i)
    IN IF next # NoToken
       THEN [f EXCEPT !.ids = ids, !.pageToken = next,
                      !.asked = Append(@, [pageToken |-> next,
                                           collected |-> Len(ids)])]
       ELSE [f EXCEPT !.pc = "returned", !.ids = ids, !.pageToken = NoToken,
                      !.result = ids]

\* the loop body from the response of the request under way to the next
\* await or to the return
pageArrives(f, pages) ==
    LET i == IF f.pageToken = NoToken THEN 1 ELSE f.pageToken
        ids == f.ids \o SelectSeq(pages[i], TruthyId)
        next == nextPageToken(pages, i)
    IN IF Len(ids) >= f.maxThreads
       THEN [f EXCEPT !.pc = "returned", !.ids = ids,
                      !.result = SubSeq(ids, 1, f.maxThreads)]
       ELSE IF next # NoToken
       THEN [f EXCEPT !.ids = ids, !.pageToken = next,
                      !.asked = Append(@, [pageToken |-> next,
                                           collected |-> Len(ids)])]
       ELSE [f EXCEPT !.pc = "returned", !.ids = ids, !.pageToken = NoToken,
                      !.result = ids]

\* options.maxThreads as the routes pass it: a whole number
FetchLimits == { 0, 1, 2, 3, 4, 5 }

\* listings to page through; one lists a thread without an id
FetchSources ==
    Mailboxes \cup { << <<IdA, EmptyId>>, <<>>, <<IdB>> >>,
                     << <<IdD, IdC>>, <<IdB>>, <<IdA>> >> }

FetchStarts ==
    /\ fetchRun.pc # "awaiting"
    /\ \E maxThreads \in FetchLimits : fetchRun' = fetchCall(maxThreads)
    /\ UNCHANGED mailbox

FetchPageArrives ==
    /\ fetchRun.pc = "awaiting"
    /\ fetchRun' = pageArrives(fetchRun, mailbox)
    /\ UNCHANGED mailbox

-----------------------------------------------------------------------------
(* The LLM extraction call: src/lib/ingest-state.ts, lines 196-321         *)
(* (the openai module)                                                     *)

\* String.prototype.trim on a string of characters
IsSpace(c) == c \in {" ", "\n", "\t"}

Trim(str) ==
    LET kept == { i \in DOMAIN str : ~IsSpace(str[i]) }
    IN IF kept = {} THEN <<>>
       ELSE SubSeq(str, CHOOSE i \in kept : \A j \in kept : i <= j,
                        CHOOSE i \in kept : \A j \in kept : j <= i)

UpperCase == <<"A", "B", "C", "D", "E", "F", "G", "H", "I", "J", "K", "L", "M",
               "N", "O", "P", "Q", "R", "S", "T", "U", "V", "W", "X", "Y", "Z">>
LowerCase == <<"a", "b", "c", "d", "e", "f", "g", "h", "i", "j", "k", "l", "m",
               "n", "o", "p", "q", "r", "s", "t", "u", "v", "w", "x", "y", "z">>

\* String.prototype.toLowerCase
ToLowerCase(str) ==
    [i \in DOMAIN str |->
        IF \E n \in DOMAIN UpperCase : UpperCase[n] = str[i]
        THEN LowerCase[CHOOSE n \in DOMAIN UpperCase : UpperCase[n] = str[i]]
        ELSE str[i]]

\* The model's output_text is a string of tokens: white space, a ``` fence,
\* a word, or the text of one JSON value.
WS == [t |-> "ws"]
Fence == [t |-> "fence"]
Word(w) == [t |-> "word", w |-> w]
JsonText(v) == [t |-> "json", v |-> v]

\* trim on a string of tokens
TrimText(text) ==
    LET kept == { i \in DOMAIN text : text[i] # WS }
    IN IF kept = {} THEN <<>>
       ELSE SubSeq(text, CHOOSE i \in kept : \A j \in kept : i <= j,
                         CHOOSE i \in kept : \A j \in kept : j <= i)

\* text.match(/^```(?:json)?\s*([\s\S]*?)```$/i): group 1, or no match
FenceMatch(text) ==
    IF Len(text) >= 2 /\ text[1] = Fence /\ text[Len(text)] = Fence
    THEN LET afterTag ==
                 IF Len(text) >= 3 /\ text[2].t = "word"
                    /\ ToLowerCase(text[2].w) = <<"j", "s", "o", "n">>
                 THEN 3 ELSE 2
             rest == SubSeq(text, afterTag, Len(text) - 1)
             inner == { i \in DOMAIN rest : rest[i] # WS }
             from == IF inner = {} THEN Len(rest) + 1
                     ELSE CHOOSE i \in inner : \A j \in inner : i <= j
         IN [matched |-> TRUE, group |-> SubSeq(rest, from, Len(rest))]
    ELSE [matched |-> FALSE, group |-> <<>>]

\* cleanModelOutput(raw): the text to parse, or Null
cleanModelOutput(raw) ==
    IF ~Truthy(raw) THEN Null
    ELSE LET text == TrimText(raw.s)
             fenceMatch == FenceMatch(text)
             inner == IF fenceMatch.matched THEN TrimText(fenceMatch.group) ELSE text
         IN IF inner = <<>> THEN Null ELSE Str(inner)

\* JSON.parse(text): the value, or a SyntaxError
JsonParse(text) ==
    IF Len(text) = 1 /\ text[1].t = "json"
    THEN [ok |-> TRUE, v |-> text[1].v]
    ELSE [ok |-> FALSE, v |-> Undefined]

\* JSON values: Null, Num, Str, Arr and objects, which map property names
\* to values
Obj(o) == [k |-> "object", o |-> o]

\* entry.question, entry.answer: a property read (undefined on a primitive or
\* when the object lacks the property)
Get(v, name) ==
    IF v.k = "object" /\ name \in DOMAIN v.o THEN v.o[name] ELSE Undefined

\* entry.question?.trim() ?? "": the string, or a TypeError (reading a
\* property of null, or calling trim on what is no string)
TrimmedField(entry, name) ==
    IF entry \in {Null, Undefined}
    THEN [ok |-> FALSE, s |-> <<>>]
    ELSE LET v == Get(entry, name)
         IN IF v \in {Null, Undefined} THEN [ok |-> TRUE, s |-> <<>>]
            ELSE IF IsString(v) THEN [ok |-> TRUE, s |-> Trim(v.s)]
            ELSE [ok |-> FALSE, s |-> <<>>]

Unknown == <<"u", "n", "k", "n", "o", "w", "n">>
NotApplicable == <<"n", "/", "a">>

\* the filter comparing the answer as written, without toLowerCase
KeepEntryCaseSensitive(entry) ==
    /\ entry.question # <<>>
    /\ entry.answer # <<>>
    /\ entry.answer # Unknown
    /\ entry.answer # NotApplicable

\* the filter callback of lines 225-231
KeepEntry(entry) ==
    /\ entry.question # <<>>
    /\ entry.answer # <<>>
    /\ LET normalizedAnswer == ToLowerCase(entry.answer)
       IN normalizedAnswer # Unknown /\ normalizedAnswer # NotApplicable

\* extractQuestionsAndAnswersFromThread once the LLM call has ended as llm
\* says: it throws, or it returns the entries
extractQuestionsAndAnswersFromThread(llm) ==
    IF llm.k = "throws" THEN [ok |-> FALSE, entries |-> <<>>]
    ELSE LET text == cleanModelOutput(llm)
         IN IF text = Null THEN [ok |-> TRUE, entries |-> <<>>]
            ELSE LET parsed == JsonParse(text.s)
                 IN IF ~parsed.ok \/ ~IsArray(parsed.v)
                    THEN [ok |-> FALSE, entries |-> <<>>]
                    ELSE LET a == parsed.v.a
                             typeError ==
                                 \E i \in DOMAIN a :
                                     \/ ~TrimmedField(a[i], "question").ok
                                     \/ ~TrimmedField(a[i], "answer").ok
                             mapped ==
                                 [i \in DOMAIN a |->
                                    [question |-> TrimmedField(a[i], "question").s,
                                     answer |-> TrimmedField(a[i], "answer").s]]
                         IN IF typeError
                            THEN [ok |-> FALSE, entries |-> <<>>]
                            ELSE [ok |-> TRUE, entries |-> SelectSeq(mapped, KeepEntry)]

\* sample questions and answers, as the model writes them
SampleQuestions ==
    { QuestionA, <<" ">> \o QuestionA \o <<"\n">>, <<>>, <<" ">> }

SampleAnswers ==
    { AnswerYes, <<" ">> \o AnswerYes \o <<"\n">>, AnswerNo,
      <<"U", "n", "k", "n", "o", "w", "n">>,
      <<"U", "N", "K", "N", "O", "W", "N", " ">>,
      <<"u", "n", "k", "n", "o", "w", "n", ".">>,
      <<"n", "/", "a">>, <<" ", "N", "/", "A">>,
      <<>>, <<"\t">> }

QA(q, a) == Obj([question |-> Str(q), answer |-> Str(a)])

WellFormedEntries == { QA(q, a) : q \in SampleQuestions, a \in SampleAnswers }

\* array elements that are no {question, answer} object
MalformedEntries ==
    { Obj(<< >>), Obj([question |-> Str(QuestionA)]),
      Obj([question |-> Num(1), answer |-> Str(AnswerYes)]),
      Obj([question |-> Str(QuestionA), answer |-> Null]),
      Obj([q |-> Str(QuestionA), a |-> Str(AnswerYes)]),
      Num(1), Str(AnswerYes), Null }

PairedEntries ==
    { QA(QuestionA, AnswerYes), QA(QuestionB, <<"U", "n", "k", "n", "o", "w", "n">>),
      QA(<<" ">> \o QuestionB, AnswerNo), Obj(<< >>) }

JsonValues ==
    { Arr(<<>>) }
    \cup { Arr(<<e>>) : e \in WellFormedEntries \cup MalformedEntries }
    \cup { Arr(<<e1, e2>>) : e1 \in PairedEntries, e2 \in PairedEntries }
    \cup { QA(QuestionA, AnswerYes), Num(1), Str(AnswerYes), Null }

\* what the model writes where the JSON should be
Bodies ==
    { <<>>, <<WS>> }
    \cup { <<JsonText(v)>> : v \in JsonValues }
    \cup { <<Word(<<"S", "u", "r", "e">>), WS, JsonText(Arr(<<QA(QuestionA, AnswerYes)>>))>>,
          <<Word(<<"N", "o", "n", "e">>)>> }

\* the same body bare, padded, and inside a fence with or without a tag
Wrapped(body, wrapper) ==
    CASE wrapper = "bare" -> body
      [] wrapper = "padded" -> <<WS>> \o body \o <<WS, WS>>
      [] wrapper = "fence" -> <<Fence, WS>> \o body \o <<WS, Fence>>
      [] wrapper = "json" -> <<Fence, Word(<<"j", "s", "o", "n">>), WS>> \o body \o <<WS, Fence, WS>>
      [] wrapper = "JSON" -> <<WS, Fence, Word(<<"J", "S", "O", "N">>)>> \o body \o <<Fence>>

Wrappers == {"bare", "padded", "fence", "json", "JSON"}

LlmOutputs ==
    { [k |-> "throws"], Null }
    \cup { Str(Wrapped(body, wrapper)) : body \in Bodies, wrapper \in Wrappers }

Extract ==
    /\ ~extraction.done
    /\ LET r == extractQuestionsAndAnswersFromThread(llmOutput)
       IN extraction' = [done |-> TRUE, ok |-> r.ok, entries |-> r.entries]
    /\ UNCHANGED llmOutput

-----------------------------------------------------------------------------
(* The per-thread extraction route: src/unnamed/part_003, POST, and the    *)
(* server-side preview route: src/app/api/gmail/ingest/preview/route.ts    *)

\* what fetching and extracting one thread meets: the browser's request is
\* delivered or rejects (net), the Gmail thread loads or
\* fetchGmailThreadDetail throws (detail), and the LLM call ends as llm says
Outcome(net, detail, llm) == [net |-> net, detail |-> detail, llm |-> llm]

\* POST /api/gmail/thread/<threadId>/qa
threadQaPOST(session, threadId, outcome) ==
    IF ~session THEN [status |-> 401, questions |-> <<>>]
    ELSE IF ~TruthyId(threadId) THEN [status |-> 400, questions |-> <<>>]
    ELSE IF ~outcome.detail THEN [status |-> 500, questions |-> <<>>]
    ELSE LET qa == extractQuestionsAndAnswersFromThread(outcome.llm)
         IN IF qa.ok THEN [status |-> 200, questions |-> qa.entries]
            ELSE [status |-> 500, questions |-> <<>>]

\* the for loop of the preview route over the thread ids still to visit
RECURSIVE PreviewLoop(_, _, _)
PreviewLoop(threadIds, outcomes, acc) ==
    IF threadIds = <<>> THEN acc
    ELSE LET threadId == Head(threadIds)
             counted == [acc EXCEPT !.processedThreads = @ + 1]
             qaPairs == extractQuestionsAndAnswersFromThread(outcomes[threadId].llm)
             next == IF outcomes[threadId].detail /\ qaPairs.ok
                        /\ qaPairs.entries # <<>>
                     THEN [counted EXCEPT
                             !.threadsWithQuestions = @ + 1,
                             !.totalQuestions = @ + Len(qaPairs.entries),
                             !.threads = Append(@, [threadId |-> threadId,
                                                    createdAt |-> Null,
                                                    questions |-> qaPairs.entries])]
                     ELSE counted
         IN PreviewLoop(Tail(threadIds), outcomes, next)

\* POST /api/gmail/ingest/preview for a whole-number body.maxThreads or
\* none; io: the Gmail listing fails
previewPOST(pages, session, requested, outcomes, io) ==
    LET maxThreads == IF requested \in {Undefined, Null}
                      THEN DefaultMaxThreads ELSE requested.h \div 2
        threadIds == fetchAllGmailThreadIds(pages, maxThreads).ids
        none == [status |-> 200, processedThreads |-> 0, threadsWithQuestions |-> 0,
                 totalQuestions |-> 0, threads |-> <<>>, listed |-> <<>>]
    IN IF ~session THEN [none EXCEPT !.status = 401]
       ELSE IF io THEN [none EXCEPT !.status = 500]
       ELSE PreviewLoop(threadIds, outcomes, [none EXCEPT !.listed = threadIds])

-----------------------------------------------------------------------------
(* The ingest panel: src/components/initial-ingest-panel.tsx               *)

DefaultPreviewConcurrency == 5

\* Math.max(1, Number(process.env.NEXT_PUBLIC_INITIAL_PREVIEW_CONCURRENCY ?? "5"))
PREVIEW_CONCURRENCY(env) ==
    LET n == IF env = Undefined THEN Num(DefaultPreviewConcurrency) ELSE env
    IN IF ~IsFinite(n) THEN n
       ELSE IF n.h < 2 THEN Num(1) ELSE n

\* a pool that starts one worker for every candidate
WorkerCountPerCandidate(concurrency, n) == n

\* the length of Array.from({ length: Math.min(PREVIEW_CONCURRENCY, n) })
WorkerCount(concurrency, n) ==
    IF concurrency.c = "NaN" THEN 0
    ELSE IF concurrency.c = "Infinity" THEN n
    ELSE Min(concurrency.h \div 2, n)

\* listRequestPayload.maxThreads, or Undefined when the payload is {}
ListRequestPayload(previewLimitValue, initialPreviewLimit) ==
    LET limitForPreview ==
            IF IsNumber(previewLimitValue)
               /\ (previewLimitValue.c = "Infinity"
                   \/ (IsFinite(previewLimitValue) /\ previewLimitValue.h > 0))
            THEN previewLimitValue ELSE initialPreviewLimit
    IN IF Truthy(limitForPreview) /\ IsFinite(limitForPreview)
       THEN limitForPreview ELSE Undefined

\* the panel before its first preview
PanelAtMount ==
    [ isGenerating |-> FALSE,
      statusVariant |-> "info",
      preview |-> Null,
      latestPreviewThreadIds |-> <<>>,
      pointCount |-> Null,
      \* the locals of the running handleGeneratePreview
      threadIds |-> <<>>,
      maxThreads |-> 0,
      currentIndex |-> 0,
      workers |-> <<>>,
      results |-> <<>>,
      processedThreadsLocal |-> 0,
      threadsWithQuestionsLocal |-> 0,
      totalQuestionsLocal |-> 0,
      processedThreadIdsLocal |-> <<>> ]

\* worker w takes the next index: idx = currentIndex++, then it leaves the
\* loop or sends the request for threadIds[idx]
claim(p, w) ==
    LET idx == p.currentIndex
    IN [p EXCEPT !.currentIndex = idx + 1,
                 !.workers[w] = [pc |-> IF idx >= Len(p.threadIds)
                                        THEN "done" ELSE "awaiting",
                                 idx |-> idx]]

\* Array.from({ length }, () => worker()): each worker runs to its first await
RECURSIVE startWorkers(_, _, _)
startWorkers(p, w, count) ==
    IF w > count THEN p ELSE startWorkers(claim(p, w), w + 1, count)

\* what the threads of the samples meet
Answered == Outcome(TRUE, TRUE, Str(<<JsonText(Arr(<<QA(QuestionA, AnswerYes)>>))>>))
AnsweredTwice ==
    Outcome(TRUE, TRUE,
            Str(Wrapped(<<JsonText(Arr(<<QA(QuestionA, AnswerNo),
                                         QA(QuestionB, <<"U", "n", "k", "n", "o", "w", "n">>),
                                         QA(<<" ">> \o QuestionB, AnswerYes)>>))>>, "json")))
NothingFound == Outcome(TRUE, TRUE, Str(<<JsonText(Arr(<<>>))>>))
Garbled == Outcome(TRUE, TRUE, Str(<<Word(<<"N", "o", "n", "e">>)>>))
LlmDown == Outcome(TRUE, TRUE, [k |-> "throws"])
DetailFails == Outcome(TRUE, FALSE, [k |-> "throws"])
Rejected == Outcome(FALSE, TRUE, [k |-> "throws"])

AllThreadIds == {IdA, IdB, IdC, IdD}

ThreadOutcomes ==
    { Answered, AnsweredTwice, NothingFound, Garbled, LlmDown, DetailFails, Rejected }

\* the qa route's responses to the sample threads, for a request with a
\* session
threadQaResponses ==
    [id \in AllThreadIds |->
        [outcome \in ThreadOutcomes |-> threadQaPOST(TRUE, id, outcome)]]

\* what the worker's fetch of /api/gmail/thread/<threadId>/qa comes to: it
\* rejects, or it brings the route's response
fetchThreadQa(threadId, outcome) ==
    [rejected |-> ~outcome.net, response |-> threadQaResponses[threadId][outcome]]

\* one pass of the loop body whose failure leaves the loop's bookkeeping
\* undone: no finally block
workerIterationWithoutFinally(p, idx, fetched) ==
    LET threadId == p.threadIds[idx + 1]
        questions == SelectSeq(fetched.response.questions,
                               LAMBDA qa : qa.question # <<>> /\ qa.answer # <<>>)
    IN IF ~fetched.rejected /\ fetched.response.status = 200
       THEN [p EXCEPT
               !.threadsWithQuestionsLocal = @ + (IF questions # <<>> THEN 1 ELSE 0),
               !.totalQuestionsLocal = @ + Len(questions),
               !.results = IF questions # <<>>
                           THEN Append(@, [order |-> idx,
                                           thread |-> [threadId |-> threadId,
                                                       createdAt |-> Null,
                                                       questions |-> questions]])
                           ELSE @,
               !.processedThreadsLocal = @ + 1,
               !.processedThreadIdsLocal = Append(@, threadId)]
       ELSE p

\* one pass of the worker's loop body for index idx, from the settling of
\* the fetch to the end of the finally block
workerIteration(p, idx, fetched) ==
    LET threadId == p.threadIds[idx + 1]
        questions == SelectSeq(fetched.response.questions,
                               LAMBDA qa : qa.question # <<>> /\ qa.answer # <<>>)
        pushed == ~fetched.rejected /\ fetched.response.status = 200
                  /\ questions # <<>>
        tried == IF pushed
                 THEN [p EXCEPT
                         !.threadsWithQuestionsLocal = @ + 1,
                         !.totalQuestionsLocal = @ + Len(questions),
                         !.results = Append(@, [order |-> idx,
                                                thread |-> [threadId |-> threadId,
                                                            createdAt |-> Null,
                                                            questions |-> questions]])]
                 ELSE p
    IN [tried EXCEPT !.processedThreadsLocal = @ + 1,
                     !.processedThreadIdsLocal = Append(@, threadId)]

\* the threads in the order their results were pushed: no sort
ThreadsAsPushed(results) == [i \in DOMAIN results |-> results[i].thread]

\* results.sort((a, b) => a.order - b.order).map((entry) => entry.thread)
SortedThreads(results) ==
    [i \in DOMAIN results |->
        LET j == CHOOSE j \in DOMAIN results :
                    Cardinality({ k \in DOMAIN results :
                                    results[k].order < results[j].order }) = i - 1
        IN results[j].thread]

\* preview.threads.flatMap(...): the items sent to the upsert route
RECURSIVE IngestItems(_)
IngestItems(threads) ==
    IF threads = <<>> THEN <<>>
    ELSE [i \in DOMAIN Head(threads).questions |->
             [threadId |-> Head(threads).threadId,
              question |-> Head(threads).questions[i].question,
              answer |-> Head(threads).questions[i].answer,
              createdAt |-> Head(threads).createdAt]]
         \o IngestItems(Tail(threads))

\* the state payload of a preview that stamps the ingest time instead
PreviewSyncPayloadStampingIngest(t) ==
    [EmptyPartial EXCEPT !.lastFullIngestAt = Iso(t), !.totalThreadsDetected = Null]

\* the state payload of a preview
PreviewSyncPayload(t) ==
    [EmptyPartial EXCEPT !.lastPreviewAt = Iso(t), !.totalThreadsDetected = Null]

\* the state payload of an ingest that leaves the processed ids out
IngestSyncPayloadWithoutIds(processedThreadIds, t) ==
    [EmptyPartial EXCEPT !.lastFullIngestAt = Iso(t), !.totalThreadsDetected = Null]

\* the state payload of an ingest that stamps the preview time as well
IngestSyncPayloadStampingPreview(processedThreadIds, t) ==
    [EmptyPartial EXCEPT !.processedThreadIds = Arr(processedThreadIds),
                         !.lastFullIngestAt = Iso(t),
                         !.lastPreviewAt = Iso(t),
                         !.totalThreadsDetected = Null]

\* the state payload of an ingest
IngestSyncPayload(processedThreadIds, t) ==
    [EmptyPartial EXCEPT !.processedThreadIds = Arr(processedThreadIds),
                         !.lastFullIngestAt = Iso(t),
                         !.totalThreadsDetected = Null]

MaxRounds == 2      \* previews the panel starts

\* handleGeneratePreview up to its first await on the workers (or, with no
\* thread listed, to its end); io: the list request or the state request
\* fails
GeneratePreview ==
    /\ ~panel.isGenerating
    /\ Len(rounds) < MaxRounds
    /\ \E io \in {"none", "list", "state"}, t \in Instants :
          LET requested == ListRequestPayload(settings.previewLimitValue, Null)
              r == listPOST(doc, mailbox, TRUE, requested, Undefined, io = "list")
              cleared == [panel EXCEPT !.preview = Null, !.statusVariant = "info"]
              count == WorkerCount(PREVIEW_CONCURRENCY(settings.concurrency),
                                   Len(r.threadIds))
              fresh == [cleared EXCEPT
                          !.isGenerating = TRUE,
                          !.latestPreviewThreadIds = r.threadIds,
                          !.threadIds = r.threadIds,
                          !.maxThreads = r.maxThreads,
                          !.currentIndex = 0,
                          !.workers = [w \in 1..count |-> [pc |-> "new", idx |-> 0]],
                          !.results = <<>>,
                          !.processedThreadsLocal = 0,
                          !.threadsWithQuestionsLocal = 0,
                          !.totalQuestionsLocal = 0,
                          !.processedThreadIdsLocal = <<>>]
              synced == statePOST(doc, PreviewSyncPayload(t), t, t)
          IN /\ listLog' = [flip |-> ~listLog.flip, status |-> r.status,
                            threadIds |-> r.threadIds, maxThreads |-> r.maxThreads,
                            processedCount |-> r.processedCount,
                            requests |-> r.requests]
             /\ rounds' = Append(rounds,
                   [points |-> qdrant,
                    cut |-> r.status # 200
                            \/ Len(r.threadIds) < Cardinality(CandidatePool \ ProcessedSet),
                    complete |-> r.status = 200 /\ r.threadIds = <<>> /\ io = "none"])
             /\ IF r.status # 200
                THEN /\ panel' = [cleared EXCEPT !.statusVariant = "error"]
                     /\ UNCHANGED <<doc, now>>
                ELSE IF r.threadIds = <<>>
                THEN /\ panel' = [cleared EXCEPT
                                     !.latestPreviewThreadIds = <<>>,
                                     !.statusVariant = IF io = "state"
                                                       THEN "error" ELSE "info"]
                     /\ doc' = IF io = "state" THEN doc ELSE synced.file
                     /\ now' = t
                ELSE /\ panel' = startWorkers(fresh, 1, count)
                     /\ UNCHANGED <<doc, now>>
    /\ UNCHANGED <<returned, supplied, collectionName, qdrant, upsertLog, latest,
                   mailbox, threadOutcome, settings>>

\* a worker's request settles: the rest of its loop body, and its next
\* pass up to the next await
WorkerSettles ==
    /\ panel.isGenerating
    /\ \E w \in DOMAIN panel.workers :
          /\ panel.workers[w].pc = "awaiting"
          /\ LET idx == panel.workers[w].idx
                 threadId == panel.threadIds[idx + 1]
             IN \E fetched \in { fetchThreadQa(threadId, threadOutcome[threadId]) } :
                \E settled \in { workerIteration(panel, idx, fetched) } :
                   panel' = claim(settled, w)
    /\ UNCHANGED <<now, doc, returned, supplied, collectionName, qdrant, upsertLog,
                   latest, mailbox, listLog, threadOutcome, settings, rounds>>

\* handleGeneratePreview from the settling of Promise.all(workers) to its
\* end; io: the state request fails
PreviewCompletes ==
    /\ panel.isGenerating
    /\ \A w \in DOMAIN panel.workers : panel.workers[w].pc = "done"
    /\ \E io \in {"none", "state"}, t \in Instants :
          LET processedThreadIds == Dedup(panel.processedThreadIdsLocal)
              summary == [processedThreads |-> panel.processedThreadsLocal,
                          threadsWithQuestions |-> panel.threadsWithQuestionsLocal,
                          totalQuestions |-> panel.totalQuestionsLocal,
                          maxThreads |-> panel.maxThreads,
                          threads |-> SortedThreads(panel.results)]
              synced == statePOST(doc, PreviewSyncPayload(t), t, t)
          IN /\ panel' = [panel EXCEPT !.latestPreviewThreadIds = processedThreadIds,
                                       !.preview = summary,
                                       !.statusVariant =
                                           IF io = "state" THEN "error"
                                           ELSE IF panel.threadsWithQuestionsLocal = 0
                                           THEN "info" ELSE "success",
                                       !.isGenerating = FALSE]
             /\ doc' = IF io = "state" THEN doc ELSE synced.file
             /\ now' = t
    /\ UNCHANGED <<returned, supplied, collectionName, qdrant, upsertLog, latest,
                   mailbox, listLog, threadOutcome, settings, rounds>>

\* handleIngestSelected without the test of response.ok: the state request is
\* sent whatever the upsert route answered
IngestSelectedWithoutOkTest ==
    /\ ~panel.isGenerating
    /\ panel.preview # Null
    /\ IngestItems(panel.preview.threads) # <<>>
    /\ \E embed \in { Vectors(1536), [k |-> "throws"] },
          io \in {"none", "upsert", "upsertReply", "state"}, t \in Instants :
          LET threads == panel.preview.threads
              ingestItems == IngestItems(threads)
              uniqueThreadIds == Dedup([i \in DOMAIN threads |-> threads[i].threadId])
              processedThreadIds ==
                  Dedup(IF panel.latestPreviewThreadIds # <<>>
                        THEN panel.latestPreviewThreadIds ELSE uniqueThreadIds)
              r == upsertPOST(qdrant, collectionName, ingestItems, embed,
                              IF io = "state" THEN "none" ELSE io, t)
              upserted == r.status = 200
              synced == statePOST(doc, IngestSyncPayload(processedThreadIds, t), t, t)
              stats == IF upserted
                       THEN Num(Cardinality(DOMAIN r.store.points)) ELSE panel.pointCount
          IN /\ qdrant' = r.store
             /\ upsertLog' = [flip |-> ~upsertLog.flip, status |-> r.status,
                              calls |-> r.calls, size |-> r.size]
             /\ latest' = IF "upsert" \in r.calls /\ io # "upsert"
                           THEN Record(latest, SelectSeq(ingestItems, ValidItem), t)
                           ELSE latest
             /\ doc' = IF io # "state" THEN synced.file ELSE doc
             /\ now' = t
             /\ panel' = IF upserted /\ io # "state"
                         THEN [panel EXCEPT !.preview = Null, !.pointCount = stats,
                                            !.statusVariant = "success"]
                         ELSE [panel EXCEPT !.pointCount = stats,
                                            !.statusVariant = "error"]
             /\ rounds' = [rounds EXCEPT ![Len(rounds)] =
                             [@ EXCEPT !.points = r.store,
                                       !.complete = @ \/ (upserted /\ io # "state")]]
    /\ UNCHANGED <<returned, supplied, collectionName, mailbox, listLog,
                   threadOutcome, settings>>

\* handleIngestSelected; the embedding call ends as embed says, and io: the
\* upsert request, its reply or the state request fails
IngestSelected ==
    /\ ~panel.isGenerating
    /\ panel.preview # Null
    /\ IngestItems(panel.preview.threads) # <<>>
    /\ \E embed \in { Vectors(1536), [k |-> "throws"] },
          io \in {"none", "upsert", "upsertReply", "state"}, t \in Instants :
          LET threads == panel.preview.threads
              ingestItems == IngestItems(threads)
              uniqueThreadIds == Dedup([i \in DOMAIN threads |-> threads[i].threadId])
              processedThreadIds ==
                  Dedup(IF panel.latestPreviewThreadIds # <<>>
                        THEN panel.latestPreviewThreadIds ELSE uniqueThreadIds)
              r == upsertPOST(qdrant, collectionName, ingestItems, embed,
                              IF io = "state" THEN "none" ELSE io, t)
              upserted == r.status = 200
              synced == statePOST(doc, IngestSyncPayload(processedThreadIds, t), t, t)
              stats == IF upserted
                       THEN Num(Cardinality(DOMAIN r.store.points)) ELSE panel.pointCount
          IN /\ qdrant' = r.store
             /\ upsertLog' = [flip |-> ~upsertLog.flip, status |-> r.status,
                              calls |-> r.calls, size |-> r.size]
             /\ latest' = IF "upsert" \in r.calls /\ io # "upsert"
                           THEN Record(latest, SelectSeq(ingestItems, ValidItem), t)
                           ELSE latest
             /\ doc' = IF upserted /\ io # "state" THEN synced.file ELSE doc
             /\ now' = t
             /\ panel' = IF upserted /\ io # "state"
                         THEN [panel EXCEPT !.preview = Null, !.pointCount = stats,
                                            !.statusVariant = "success"]
                         ELSE [panel EXCEPT !.pointCount = stats,
                                            !.statusVariant = "error"]
             /\ rounds' = [rounds EXCEPT ![Len(rounds)] =
                             [@ EXCEPT !.points = r.store,
                                       !.complete = @ \/ (upserted /\ io # "state")]]
    /\ UNCHANGED <<returned, supplied, collectionName, mailbox, listLog,
                   threadOutcome, settings>>

\* a request to the server-side preview route
PreviewRequest ==
    /\ \E session \in BOOLEAN, requested \in {Undefined, Num(1), Num(3)},
          io \in BOOLEAN :
          previewLog' = previewPOST(mailbox, session, requested, threadOutcome, io)
    /\ UNCHANGED <<now, doc, returned, supplied, collectionName, qdrant, upsertLog,
                   latest, mailbox, listLog, threadOutcome, settings, panel, rounds>>

\* the operator asks the running preview to stop. Neither the worker's
\* loop nor its fetch is handed a signal, so no state of the panel changes
Abort ==
    /\ panel.isGenerating
    /\ ~abortSignal
    /\ abortSignal' = TRUE
    /\ UNCHANGED <<now, doc, returned, supplied, collectionName, qdrant, upsertLog,
                   latest, mailbox, listLog, threadOutcome, settings, panel, rounds>>

\* the mailboxes, thread outcomes and settings of the rounds examined
RoundScenarios ==
    { [mailbox |-> << <<>> >>,
       threadOutcome |-> [id \in AllThreadIds |-> Answered],
       settings |-> [concurrency |-> Undefined, previewLimitValue |-> Null]],
      [mailbox |-> << <<IdA>> >>,
       threadOutcome |-> [id \in AllThreadIds |-> Answered],
       settings |-> [concurrency |-> Undefined, previewLimitValue |-> Null]],
      [mailbox |-> << <<IdA, IdB>>, <<IdC>> >>,
       threadOutcome |-> [id \in AllThreadIds |->
                            IF id = IdA THEN Garbled ELSE AnsweredTwice],
       settings |-> [concurrency |-> Num(2), previewLimitValue |-> Num(2)]],
      [mailbox |-> << <<IdA, IdB>>, <<IdC>> >>,
       threadOutcome |-> [id \in AllThreadIds |->
                            IF id = IdB THEN Rejected ELSE Answered],
       settings |-> [concurrency |-> Undefined, previewLimitValue |-> Null]],
      [mailbox |-> << <<IdA>>, <<IdB>>, <<IdC>>, <<IdD>> >>,
       threadOutcome |-> [id \in AllThreadIds |->
                            CASE id = IdA -> NothingFound [] id = IdB -> DetailFails
                              [] id = IdC -> AnsweredTwice [] OTHER -> LlmDown],
       settings |-> [concurrency |-> Num(1), previewLimitValue |-> Num(3)]],
      [mailbox |-> << <<IdA, IdB>> >>,
       threadOutcome |-> [id \in AllThreadIds |-> Answered],
       settings |-> [concurrency |-> NaN, previewLimitValue |-> Null]],
      [mailbox |-> << <<IdB>>, <<IdA>> >>,
       threadOutcome |-> [id \in AllThreadIds |->
                            IF id = IdA THEN LlmDown ELSE Garbled],
       settings |-> [concurrency |-> Half(5), previewLimitValue |-> Half(3)]] }

-----------------------------------------------------------------------------
(* The manual sync panel: handleProcess in src/unnamed/part_005            *)

DefaultSyncConcurrency == 5

\* Math.max(1, Number(process.env.NEXT_PUBLIC_SYNC_CONCURRENCY ?? "5") || 5)
SYNC_CONCURRENCY(env) ==
    LET n == IF env = Undefined THEN Num(DefaultSyncConcurrency) ELSE env
        orFive == IF n.c = "NaN" \/ (IsFinite(n) /\ n.h = 0)
                  THEN Num(DefaultSyncConcurrency) ELSE n
    IN IF ~IsFinite(orFive) THEN orFive
       ELSE IF orFive.h < 2 THEN Num(1) ELSE orFive

\* the panel before handleProcess, with the threads it was handed and the
\* concurrency its build was given; requests lists the indices whose
\* thread was asked of the qa route, in the order of the requests
SyncAtMount(threads, env) ==
    [ threads |-> threads,
      env |-> env,
      isProcessing |-> FALSE,
      error |-> Null,
      result |-> Null,
      threadStatuses |-> [i \in DOMAIN threads |-> "idle"],
      \* the locals of the running handleProcess
      cursor |-> 0,
      workers |-> <<>>,
      processedResults |-> <<>>,
      requests |-> <<>> ]

\* processNextThread up to its first await, for worker w:
\* currentIndex = cursor, cursor += 1, and the request for the thread
processNextThread(p, w) ==
    LET currentIndex == p.cursor
    IN IF currentIndex >= Len(p.threads)
       THEN [p EXCEPT !.cursor = currentIndex + 1,
                      !.workers[w] = [pc |-> "done", idx |-> currentIndex]]
       ELSE [p EXCEPT !.cursor = currentIndex + 1,
                      !.workers[w] = [pc |-> "awaiting", idx |-> currentIndex],
                      !.threadStatuses[currentIndex + 1] = "processing",
                      !.requests = Append(@, currentIndex)]

\* Array.from({ length }, () => processNextThread())
RECURSIVE startSyncWorkers(_, _, _)
startSyncWorkers(p, w, count) ==
    IF w > count THEN p ELSE startSyncWorkers(processNextThread(p, w), w + 1, count)

\* the rest of processNextThread for index idx once its fetch has settled,
\* up to the finally block: the result is pushed, or the error is shown
afterFetch(p, idx, fetched) ==
    LET threadId == p.threads[idx + 1]
        data == [threadId |-> threadId, createdAt |-> Null,
                 questions |-> fetched.response.questions]
    IN IF ~fetched.rejected /\ fetched.response.status = 200
       THEN [p EXCEPT !.processedResults = Append(@, data),
                      !.threadStatuses[idx + 1] = "success"]
       ELSE [p EXCEPT !.threadStatuses[idx + 1] = "error"]

\* processedResults.flatMap((result) => result.questions)
RECURSIVE consolidate(_)
consolidate(processedResults) ==
    IF processedResults = <<>> THEN <<>>
    ELSE Head(processedResults).questions \o consolidate(Tail(processedResults))

\* handleProcess up to `await Promise.all(workers)`, or to its return when
\* there is no thread
HandleProcess ==
    /\ ~syncPanel.isProcessing
    /\ syncPanel.result = Null
    /\ syncPanel.error = Null
    /\ IF syncPanel.threads = <<>>
       THEN syncPanel' = [syncPanel EXCEPT
                             !.error = Str(<<"No threads available to process.">>)]
       ELSE LET concurrencyLimit == SYNC_CONCURRENCY(syncPanel.env)
                count == WorkerCount(concurrencyLimit, Len(syncPanel.threads))
                queued == [syncPanel EXCEPT
                              !.isProcessing = TRUE,
                              !.threadStatuses =
                                  [i \in DOMAIN syncPanel.threads |-> "queued"],
                              !.workers = [w \in 1..count |->
                                              [pc |-> "new", idx |-> 0]]]
            IN \E started \in { startSyncWorkers(queued, 1, count) } :
                  syncPanel' = started

\* a worker's fetch settles: the rest of that processNextThread, and from
\* its finally block the next one up to its await
SyncWorkerSettles ==
    /\ syncPanel.isProcessing
    /\ \E w \in DOMAIN syncPanel.workers :
          /\ syncPanel.workers[w].pc = "awaiting"
          /\ LET idx == syncPanel.workers[w].idx
                 threadId == syncPanel.threads[idx + 1]
             IN \E fetched \in { fetchThreadQa(threadId, threadOutcome[threadId]) } :
                \E settled \in { afterFetch(syncPanel, idx, fetched) } :
                   syncPanel' = IF settled.cursor < Len(settled.threads)
                                THEN processNextThread(settled, w)
                                ELSE [settled EXCEPT !.workers[w].pc = "done"]

\* handleProcess from the settling of Promise.all(workers) to its end
SyncCompletes ==
    /\ syncPanel.isProcessing
    /\ \A w \in DOMAIN syncPanel.workers : syncPanel.workers[w].pc = "done"
    /\ syncPanel' = [syncPanel EXCEPT
           !.result = [processedThreads |-> Len(syncPanel.processedResults),
                       consolidated |-> consolidate(syncPanel.processedResults),
                       details |-> syncPanel.processedResults],
           !.isProcessing = FALSE]

\* the thread lists the panel is handed and the concurrency of its build
SyncThreadLists == { <<>>, <<IdA>>, <<IdA, IdB>>, <<IdB, IdC, IdA>>, <<IdA, IdB, IdC, IdD>> }
SyncConcurrencies == { Undefined, NaN, Num(0), Num(1), Num(2), Half(5) }

-----------------------------------------------------------------------------
(* The body of a message: extractMessageBody in src/lib/google-auth.ts     *)

\* a MIME part: body.data is a sequence of base64url groups of four
\* characters, empty when the part has no data
Part(mimeType, data, parts) ==
    [mimeType |-> mimeType, data |-> data, parts |-> parts]

\* data.replace(/-/g, "+").replace(/_/g, "/"), on one group
Sanitized(group) ==
    [i \in DOMAIN group |-> IF group[i] = "-" THEN "+"
                           ELSE IF group[i] = "_" THEN "/"
                           ELSE group[i]]

\* Buffer.from(group, "base64").toString("utf8") on the groups in use
Base64 ==
    [g \in { <<"P","G","I","+">>, <<"a","G","k","g">>, <<"P","C","9","i">>,
             <<"P","g","o","g">>, <<"P","z","8","/">>, <<"e","W","V","z">>,
             <<"P","D","5","h">>, <<"I","C","A","K">> } |->
        CASE g = <<"P","G","I","+">> -> <<"<", "b", ">">>
          [] g = <<"a","G","k","g">> -> <<"h", "i", " ">>
          [] g = <<"P","C","9","i">> -> <<"<", "/", "b">>
          [] g = <<"P","g","o","g">> -> <<">", "\n", " ">>
          [] g = <<"P","z","8","/">> -> <<"?", "?", "?">>
          [] g = <<"e","W","V","z">> -> <<"y", "e", "s">>
          [] g = <<"P","D","5","h">> -> <<"<", ">", "a">>
          [] g = <<"I","C","A","K">> -> <<" ", " ", "\n">>]

RECURSIVE decodeMessageBody(_)
decodeMessageBody(data) ==
    IF data = <<>> THEN <<>>
    ELSE Base64[Sanitized(Head(data))] \o decodeMessageBody(Tail(data))

\* where the tag that opens before position k ends: at the next ">" or at
\* the end of the text
TagEnd(html, k) ==
    LET closes == { j \in k..Len(html) : html[j] = ">" }
    IN IF closes = {} THEN Len(html)
       ELSE CHOOSE j \in closes : \A other \in closes : j <= other

\* html.replace(/<\/?[^>]+(>|$)/g, " ") from position i on
RECURSIVE ReplaceTags(_, _)
ReplaceTags(html, i) ==
    IF i > Len(html) THEN <<>>
    ELSE IF html[i] = "<" /\ i < Len(html) /\ html[i + 1] # ">"
         THEN <<" ">> \o ReplaceTags(html, TagEnd(html, i + 1) + 1)
         ELSE <<html[i]>> \o ReplaceTags(html, i + 1)

\* text.replace(/\s+/g, " ")
RECURSIVE CollapseSpaces(_)
CollapseSpaces(text) ==
    IF text = <<>> THEN <<>>
    ELSE IF IsSpace(Head(text))
         THEN IF Len(text) > 1 /\ IsSpace(text[2])
              THEN CollapseSpaces(Tail(text))
              ELSE <<" ">> \o CollapseSpaces(Tail(text))
         ELSE <<Head(text)>> \o CollapseSpaces(Tail(text))

stripHtml(html) == Trim(CollapseSpaces(ReplaceTags(html, 1)))

RECURSIVE flattenMessageParts(_)
RECURSIVE FlattenAll(_)
\* the parts of every child, child after child
FlattenAll(children) ==
    IF children = <<>> THEN <<>>
    ELSE flattenMessageParts(Head(children)) \o FlattenAll(Tail(children))

flattenMessageParts(part) ==
    IF part = Null THEN <<>>
    ELSE <<part>> \o FlattenAll(part.parts)

\* parts.find(...): the first of the parts at the matching positions, or
\* Undefined
Find(parts, hits) ==
    IF hits = {} THEN Undefined
    ELSE parts[CHOOSE i \in hits : \A j \in hits : i <= j]

IsPlainWithData(part) == part.mimeType = "text/plain" /\ part.data # <<>>
IsHtmlWithData(part) == part.mimeType = "text/html" /\ part.data # <<>>

\* extractMessageBody looking for the text/html part first
extractMessageBodyHtmlFirst(payload) ==
    IF payload = Null THEN <<>>
    ELSE LET parts == flattenMessageParts(payload)
             plain == Find(parts, { i \in DOMAIN parts : IsPlainWithData(parts[i]) })
             html == Find(parts, { i \in DOMAIN parts : IsHtmlWithData(parts[i]) })
         IN IF html # Undefined THEN stripHtml(decodeMessageBody(html.data))
            ELSE IF plain # Undefined THEN decodeMessageBody(plain.data)
            ELSE IF payload.data # <<>> THEN decodeMessageBody(payload.data)
            ELSE <<>>

extractMessageBody(payload) ==
    IF payload = Null THEN <<>>
    ELSE LET parts == flattenMessageParts(payload)
             plain == Find(parts, { i \in DOMAIN parts : IsPlainWithData(parts[i]) })
             html == Find(parts, { i \in DOMAIN parts : IsHtmlWithData(parts[i]) })
         IN IF plain # Undefined THEN decodeMessageBody(plain.data)
            ELSE IF html # Undefined THEN stripHtml(decodeMessageBody(html.data))
            ELSE IF payload.data # <<>> THEN decodeMessageBody(payload.data)
            ELSE <<>>

\* the most child parts a sample part has
MaxParts == 2

\* base64url data: "hi ", "<b>hi </b>\n ", "  \n<>a???", "yes"
DataHi == << <<"a","G","k","g">> >>
DataBoldHi == << <<"P","G","I","-">>, <<"a","G","k","g">>, <<"P","C","9","i">>,
                 <<"P","g","o","g">> >>
DataOdd == << <<"I","C","A","K">>, <<"P","D","5","h">>, <<"P","z","8","_">> >>
DataYes == << <<"e","W","V","z">> >>

Leaves ==
    { Part(mime, data, <<>>) :
          mime \in {"text/plain", "text/html", "image/png"},
          data \in {<<>>, DataHi, DataBoldHi} }

\* multipart messages of leaves, roots that carry data of their own, and
\* messages whose parts are nested one level further down
Messages ==
    { Null }
    \cup Leaves
    \cup { Part("multipart/mixed", data, parts) :
              data \in {<<>>, DataYes},
              parts \in UNION { [1..n -> Leaves] : n \in 0..MaxParts } }
    \cup { Part("multipart/mixed", <<>>,
                << Part("multipart/alternative", <<>>, <<first, second>>), third >>) :
              first \in { Part("text/html", DataBoldHi, <<>>),
                          Part("text/html", DataOdd, <<>>),
                          Part("image/png", DataHi, <<>>) },
              second \in { Part("text/plain", DataHi, <<>>),
                           Part("text/plain", <<>>, <<>>) },
              third \in { Part("text/plain", DataYes, <<>>),
                          Part("text/html", DataYes, <<>>),
                          Part("text/html", DataOdd, <<>>) } }

ExtractBody ==
    /\ ~messageBody.done
    /\ messageBody' = [done |-> TRUE, text |-> extractMessageBody(gmailMessage)]
    /\ UNCHANGED gmailMessage

-----------------------------------------------------------------------------
(* The Google session cookie and the routes that ask for it: the thread    *)
(* list, per-thread extraction, preview and batch sync routes              *)

\* Buffer.from(value, "base64url").toString("utf8") on the cookie values in
\* use: null, 5, "abc", {}, a text cut off after {"tokens", {"tokens":null},
\* {"profile":{...}} and {"tokens":{"access_token":"x"}}
Base64UrlJson ==
    [ value \in { "bnVsbA", "NQ", "ImFiYyI", "e30", "eyJ0b2tlbnMi",
                  "eyJ0b2tlbnMiOm51bGx9",
                  "eyJwcm9maWxlIjp7ImVtYWlsIjoiYUBiLmMifX0",
                  "eyJ0b2tlbnMiOnsiYWNjZXNzX3Rva2VuIjoieCJ9fQ" } |->
        CASE value = "bnVsbA" -> <<JsonText(Null)>>
          [] value = "NQ" -> <<JsonText(Num(5))>>
          [] value = "ImFiYyI" -> <<JsonText(Str(<<"a", "b", "c">>))>>
          [] value = "e30" -> <<JsonText(Obj(<<>>))>>
          [] value = "eyJ0b2tlbnMi" -> <<Word(<<"{">>)>>
          [] value = "eyJ0b2tlbnMiOm51bGx9" -> <<JsonText(Obj([tokens |-> Null]))>>
          [] value = "eyJwcm9maWxlIjp7ImVtYWlsIjoiYUBiLmMifX0"
               -> <<JsonText(Obj([profile |-> Obj([email |-> Str(<<"a">>)])]))>>
          [] value = "eyJ0b2tlbnMiOnsiYWNjZXNzX3Rva2VuIjoieCJ9fQ"
               -> <<JsonText(Obj([tokens |-> Obj([access_token |-> Str(<<"x">>)])]))>> ]

\* the parsed payload, or Null when JSON.parse throws
decodeOAuthSessionCookie(value) ==
    LET parsed == JsonParse(Base64UrlJson[value])
    IN IF parsed.ok THEN parsed.v ELSE Null

\* the routes' test with the second if left out: any cookie value passes
AuthenticatedByCookieAlone(cookie) ==
    cookie # Undefined /\ cookie.value # ""

\* the two tests every route starts with: !sessionCookie?.value, then
\* !session?.tokens on the decoded value
Authenticated(cookie) ==
    /\ cookie # Undefined
    /\ cookie.value # ""
    /\ Truthy(Get(decodeOAuthSessionCookie(cookie.value), "tokens"))

\* POST /api/gmail/sync on the submitted ids: Promise.all over the first ten
syncPOST(session, threadIds, outcomes) ==
    LET batch == SubSeq(threadIds, 1, Min(10, Len(threadIds)))
        failed == { i \in DOMAIN batch :
                      \/ ~outcomes[batch[i]].detail
                      \/ ~extractQuestionsAndAnswersFromThread(outcomes[batch[i]].llm).ok }
        results == [i \in DOMAIN batch |->
                      [threadId |-> batch[i],
                       questions |->
                           extractQuestionsAndAnswersFromThread(
                               outcomes[batch[i]].llm).entries]]
    IN IF ~session THEN [status |-> 401, processedThreads |-> 0, details |-> <<>>]
       ELSE IF batch = <<>>
       THEN [status |-> 400, processedThreads |-> 0, details |-> <<>>]
       ELSE IF failed # {}
       THEN [status |-> 500, processedThreads |-> 0, details |-> <<>>]
       ELSE [status |-> 200, processedThreads |-> Len(results), details |-> results]

\* what each route dispatches on the way to its response: reads of the
\* state document, calls to the Gmail API and calls to the LLM
listCalls(session) ==
    IF ~session THEN {} ELSE {"state", "mailbox"}

threadQaCalls(session, threadId, outcome) ==
    IF ~session \/ ~TruthyId(threadId) THEN {}
    ELSE {"mailbox"} \cup (IF outcome.detail THEN {"llm"} ELSE {})

previewCalls(pages, session, outcomes) ==
    IF ~session THEN {}
    ELSE {"mailbox"}
         \cup (IF \E id \in Range(fetchAllGmailThreadIds(pages, DefaultMaxThreads).ids) :
                     outcomes[id].detail
               THEN {"llm"} ELSE {})

syncCalls(session, threadIds, outcomes) ==
    IF ~session \/ threadIds = <<>> THEN {}
    ELSE {"mailbox"}
         \cup (IF \E i \in DOMAIN threadIds : i <= 10 /\ outcomes[threadIds[i]].detail
               THEN {"llm"} ELSE {})

\* no cookie, an empty one, and the values above
Cookies ==
    { Undefined, [value |-> ""] } \cup { [value |-> v] : v \in DOMAIN Base64UrlJson }

\* the thread ids a request names
RequestedThreadIds == { <<>>, <<IdA>>, <<IdB, IdC>>, <<IdA, IdB>> }

\* one request to the thread list route
ListRouteRequest ==
    \E cookie \in Cookies :
        \E session \in { Authenticated(cookie) } :
        \E reply \in { listPOST(doc, mailbox, session, Undefined, Undefined, FALSE) } :
            authLog' = [route |-> "list", cookie |-> cookie,
                        status |-> reply.status, calls |-> listCalls(session),
                        threadIds |-> <<>>, body |-> Null]

\* one request to the per-thread extraction route
ThreadQaRouteRequest ==
    \E cookie \in Cookies, threadId \in {EmptyId, IdA, IdB, IdC} :
        \E session \in { Authenticated(cookie) } :
        \E outcome \in { threadOutcome[IF threadId = EmptyId THEN IdA ELSE threadId] } :
        \E reply \in { threadQaPOST(session, threadId, outcome) } :
            authLog' = [route |-> "qa", cookie |-> cookie,
                        status |-> reply.status,
                        calls |-> threadQaCalls(session, threadId, outcome),
                        threadIds |-> <<threadId>>, body |-> Null]

\* one request to the preview route
PreviewRouteRequest ==
    \E cookie \in Cookies :
        \E session \in { Authenticated(cookie) } :
        \E reply \in { previewPOST(mailbox, session, Undefined, threadOutcome, FALSE) } :
            authLog' = [route |-> "preview", cookie |-> cookie,
                        status |-> reply.status,
                        calls |-> previewCalls(mailbox, session, threadOutcome),
                        threadIds |-> <<>>, body |-> Null]

\* cookies a request to a writing route carries: none, one that decodes to
\* an object without tokens, one that decodes to a session with tokens
WriterCookies ==
    { Undefined, [value |-> "e30"],
      [value |-> "eyJ0b2tlbnMiOnsiYWNjZXNzX3Rva2VuIjoieCJ9fQ"] }

\* bodies posted to the state route by the writers the panel has
WriterBodies ==
    { [EmptyPartial EXCEPT !.processedThreadIds = Arr(<<IdA>>)],
      [EmptyPartial EXCEPT !.rules = Str(<<"r">>)],
      EmptyPartial }

\* one POST to the state route: the handler never reads request.cookies
StateRouteRequest ==
    \E cookie \in WriterCookies, body \in WriterBodies, t \in Instants :
        \E reply \in { statePOST(doc, body, t, t) } :
            /\ doc' = reply.file
            /\ returned' = reply.ret
            /\ supplied' = supplied \cup IdsOf(body.processedThreadIds)
            /\ now' = t
            /\ authLog' = [route |-> "state", cookie |-> cookie, status |-> 200,
                           calls |-> {"writeFile"}, threadIds |-> <<>>,
                           body |-> Null]

\* one POST to the upsert route: the handler never reads request.cookies
UpsertRouteRequest ==
    \E cookie \in WriterCookies, t \in Instants,
       bodyItems \in { <<>>, <<ItemYes>>, <<ItemOther>> } :
        \E reply \in { upsertPOST(qdrant, collectionName, bodyItems,
                                  Vectors(1536), "none", t) } :
            /\ qdrant' = reply.store
            /\ upsertLog' = [flip |-> ~upsertLog.flip, status |-> reply.status,
                             calls |-> reply.calls, size |-> reply.size]
            /\ latest' = IF "upsert" \in reply.calls
                          THEN Record(latest, SelectSeq(bodyItems, ValidItem), t)
                          ELSE latest
            /\ now' = t
            /\ authLog' = [route |-> "upsert", cookie |-> cookie,
                           status |-> reply.status, calls |-> reply.calls,
                           threadIds |-> <<>>, body |-> Null]

\* one request to the batch sync route
SyncRouteRequest ==
    \E cookie \in Cookies, threadIds \in RequestedThreadIds :
        \E session \in { Authenticated(cookie) } :
        \E reply \in { syncPOST(session, threadIds, threadOutcome) } :
            authLog' = [route |-> "sync", cookie |-> cookie,
                        status |-> reply.status,
                        calls |-> syncCalls(session, threadIds, threadOutcome),
                        threadIds |-> threadIds,
                        body |-> [processedThreads |-> reply.processedThreads,
                                  details |-> reply.details]]

-----------------------------------------------------------------------------
(* The OAuth routes: start, callback and logout, and the browser's jar      *)
(* src/app/api/auth/google/callback/route.ts                                *)

\* createOAuthStateCookieValue(): randomBytes(16).toString("hex")
OAuthStateValues == { Str(<<"a", "1">>), Str(<<"b", "2">>) }

\* searchParams.get("code") and searchParams.get("state"): a string or null
CodeParams == { Null, Str(<<>>), Str(<<"4", "/", "x">>) }
StateParams == { Null, Str(<<>>) } \cup OAuthStateValues

\* how the three calls to Google inside the try block end
ExchangeOutcomes ==
    { "tokens", "getTokenThrows", "noTokens", "userinfoThrows", "getProfileThrows" }

\* what Google hands back for a code it accepts
GoogleTokens == Obj([access_token |-> Str(<<"x">>)])
GoogleProfile == Obj([email |-> Str(<<"a">>)])
GmailProfile == Obj([emailAddress |-> Str(<<"a">>)])

\* Buffer.from(JSON.stringify(payload), "utf8").toString("base64url")
encodeOAuthSessionCookie(payload) == [base64url |-> JsonText(payload)]

\* a session the browser may hold from an earlier sign-in
EarlierSession ==
    [value |-> encodeOAuthSessionCookie(Obj([tokens |-> Obj([access_token |-> Str(<<"w">>)]),
                                              profile |-> GoogleProfile,
                                              gmail |-> GmailProfile]))]

\* the jar after a Set-Cookie of that value and maxAge: maxAge 0 removes it
SetCookie(value, maxAge) ==
    IF maxAge = 0 THEN Undefined ELSE [value |-> value]

\* request.cookies.get(name)?.value
CookieValue(cookie) == IF cookie = Undefined THEN Undefined ELSE cookie.value

\* the calls to Google the try block gets through, in order
CallsMade(outcome) ==
    CASE outcome \in {"getTokenThrows", "noTokens"} -> {"getToken"}
      [] outcome = "userinfoThrows" -> {"getToken", "userinfo"}
      [] OTHER -> {"getToken", "userinfo", "getProfile"}

\* buildErrorResponse: both cookies set to "" with maxAge 0
buildErrorResponse(reason, calls) ==
    [google |-> "error", reason |-> reason, calls |-> calls,
     setState |-> [value |-> Str(<<>>), maxAge |-> 0],
     setSession |-> [value |-> Str(<<>>), maxAge |-> 0]]

\* the callback with the comparison of the two states left out
callbackGETWithoutStateTest(code, state, storedState, outcome) ==
    IF ~Truthy(code) THEN buildErrorResponse("missing_code", {})
    ELSE IF outcome # "tokens"
    THEN buildErrorResponse("oauth_failure", CallsMade(outcome))
    ELSE [google |-> "connected", reason |-> "", calls |-> CallsMade(outcome),
          setState |-> [value |-> Str(<<>>), maxAge |-> 0],
          setSession |->
              [value |-> encodeOAuthSessionCookie(Obj([tokens |-> GoogleTokens,
                                                       profile |-> GoogleProfile,
                                                       gmail |-> GmailProfile])),
               maxAge |-> 60 * 60 * 24 * 30]]

\* GET /api/auth/google/callback
callbackGET(code, state, storedState, outcome) ==
    IF ~Truthy(code) THEN buildErrorResponse("missing_code", {})
    ELSE IF ~Truthy(storedState) \/ storedState # state
    THEN buildErrorResponse("invalid_state", {})
    ELSE IF outcome # "tokens"
    THEN buildErrorResponse("oauth_failure", CallsMade(outcome))
    ELSE [google |-> "connected", reason |-> "", calls |-> CallsMade(outcome),
          setState |-> [value |-> Str(<<>>), maxAge |-> 0],
          setSession |->
              [value |-> encodeOAuthSessionCookie(Obj([tokens |-> GoogleTokens,
                                                       profile |-> GoogleProfile,
                                                       gmail |-> GmailProfile])),
               maxAge |-> 60 * 60 * 24 * 30]]

\* nothing requested yet
NoOAuthRequest ==
    [route |-> "", code |-> Null, state |-> Null, storedState |-> Undefined,
     outcome |-> "", google |-> "", reason |-> "", calls |-> {}]

\* GET /api/auth/google: a fresh state in the redirect and in the cookie
OAuthStart ==
    \E state \in OAuthStateValues :
        oauth' = [oauth EXCEPT
                    !.stateCookie = SetCookie(state, 60 * 10),
                    !.flip = ~oauth.flip,
                    !.last = [NoOAuthRequest EXCEPT !.route = "start",
                                                    !.state = state]]

\* the browser follows a redirect to the callback with its jar's cookies
OAuthCallback ==
    \E code \in CodeParams, state \in StateParams, outcome \in ExchangeOutcomes :
        \E response \in { callbackGET(code, state, CookieValue(oauth.stateCookie),
                                      outcome) } :
            oauth' = [oauth EXCEPT
                        !.stateCookie = SetCookie(response.setState.value,
                                                  response.setState.maxAge),
                        !.sessionCookie = SetCookie(response.setSession.value,
                                                    response.setSession.maxAge),
                        !.flip = ~oauth.flip,
                        !.last = [route |-> "callback", code |-> code, state |-> state,
                                  storedState |-> CookieValue(oauth.stateCookie),
                                  outcome |-> outcome, google |-> response.google,
                                  reason |-> response.reason,
                                  calls |-> response.calls]]

\* POST /api/auth/google/logout
OAuthLogout ==
    oauth' = [oauth EXCEPT !.sessionCookie = SetCookie(Str(<<>>), 0),
                           !.flip = ~oauth.flip,
                           !.last = [NoOAuthRequest EXCEPT !.route = "logout"]]

\* the state cookie's ten minutes run out in the browser
OAuthStateCookieExpires ==
    /\ oauth.stateCookie # Undefined
    /\ oauth' = [oauth EXCEPT !.stateCookie = Undefined,
                              !.flip = ~oauth.flip,
                              !.last = [NoOAuthRequest EXCEPT !.route = "expiry"]]

-----------------------------------------------------------------------------
(* Specifications: one per component, each leaving the others idle        *)

StoreIdle ==
    /\ doc = NoDoc
    /\ returned = Undefined
    /\ supplied = {}

UpsertIdle ==
    /\ collectionName = <<"inbox-qa">>
    /\ qdrant = NoCollection
    /\ upsertLog = [flip |-> FALSE, status |-> 0, calls |-> {}, size |-> 0]
    /\ latest = << >>

ListIdle ==
    /\ mailbox = << <<>> >>
    /\ listLog = [flip |-> FALSE, status |-> 0, threadIds |-> <<>>, maxThreads |-> 0,
                  processedCount |-> 0, requests |-> 0]

ExtractIdle ==
    /\ llmOutput = [k |-> "throws"]
    /\ extraction = [done |-> FALSE, ok |-> FALSE, entries |-> <<>>]

RoundIdle ==
    /\ threadOutcome = [id \in AllThreadIds |-> Answered]
    /\ settings = [concurrency |-> Undefined, previewLimitValue |-> Null]
    /\ panel = PanelAtMount
    /\ rounds = <<>>
    /\ previewLog = [status |-> 0, processedThreads |-> 0, threadsWithQuestions |-> 0,
                     totalQuestions |-> 0, threads |-> <<>>, listed |-> <<>>]

CallersIdle == callers = <<>>

BodyIdle ==
    /\ gmailMessage = Null
    /\ messageBody = [done |-> FALSE, text |-> <<>>]

AbortIdle == abortSignal = FALSE

AuthIdle ==
    authLog = [route |-> "", cookie |-> Undefined, status |-> 0, calls |-> {},
               threadIds |-> <<>>, body |-> Null]

SyncIdle == syncPanel = SyncAtMount(<<>>, Undefined)

FetchIdle == fetchRun = FetchAtRest
OAuthAtRest ==
    [stateCookie |-> Undefined, sessionCookie |-> Undefined, flip |-> FALSE,
     last |-> NoOAuthRequest]
OAuthIdle == oauth = OAuthAtRest

LaterIdle ==
    CallersIdle /\ BodyIdle /\ AbortIdle /\ AuthIdle /\ SyncIdle /\ FetchIdle
    /\ OAuthIdle

InitStore ==
    /\ now = 1
    /\ StoreIdle
    /\ UpsertIdle
    /\ ListIdle
    /\ ExtractIdle
    /\ RoundIdle
    /\ LaterIdle

NextStore ==
    \/ AddProcessedThreadsCall /\ UNCHANGED <<collectionName, qdrant, upsertLog, latest, mailbox, listLog,
                    llmOutput, extraction, threadOutcome,
                    settings, panel, rounds, previewLog, laterVars>>
    \/ UpdateCall /\ UNCHANGED <<collectionName, qdrant, upsertLog, latest, mailbox, listLog,
                    llmOutput, extraction, threadOutcome,
                    settings, panel, rounds, previewLog, laterVars>>
    \/ StatePostCall /\ UNCHANGED <<collectionName, qdrant, upsertLog, latest, mailbox, listLog,
                    llmOutput, extraction, threadOutcome,
                    settings, panel, rounds, previewLog, laterVars>>
    \/ StateGetCall /\ UNCHANGED <<collectionName, qdrant, upsertLog, latest, mailbox, listLog,
                    llmOutput, extraction, threadOutcome,
                    settings, panel, rounds, previewLog, laterVars>>

SpecStore == InitStore /\ [][NextStore]_vars

InitUpsert ==
    /\ now = 1
    /\ StoreIdle
    /\ collectionName \in CollectionNames
    /\ qdrant = NoCollection
    /\ upsertLog = [flip |-> FALSE, status |-> 0, calls |-> {}, size |-> 0]
    /\ latest = << >>
    /\ ListIdle
    /\ ExtractIdle
    /\ RoundIdle
    /\ LaterIdle

NextUpsert ==
    UpsertRequest /\ UNCHANGED <<doc, returned, supplied, mailbox, listLog,
                                 llmOutput, extraction, threadOutcome,
                    settings, panel, rounds, previewLog, laterVars>>

SpecUpsert == InitUpsert /\ [][NextUpsert]_vars

InitSeparator ==
    /\ now = 1
    /\ StoreIdle
    /\ UpsertIdle
    /\ ListIdle
    /\ ExtractIdle
    /\ RoundIdle
    /\ LaterIdle

NextSeparator ==
    UpsertSeparatorRequest /\ UNCHANGED <<doc, returned, supplied, mailbox, listLog,
                                          extractVars, laterVars>>

SpecSeparator == InitSeparator /\ [][NextSeparator]_vars

InitMutate ==
    /\ now = 1
    /\ StoreIdle
    /\ UpsertIdle
    /\ ListIdle
    /\ ExtractIdle
    /\ RoundIdle
    /\ LaterIdle

NextMutate ==
    \/ StateRouteRequest /\ UNCHANGED <<collectionName, qdrant, upsertLog, latest,
                                        mailbox, listLog, extractVars, callerVars,
                                        bodyVars, abortVars, syncVars, fetchVars, oauthVars>>
    \/ UpsertRouteRequest /\ UNCHANGED <<doc, returned, supplied, collectionName,
                                         mailbox, listLog, extractVars, callerVars,
                                         bodyVars, abortVars, syncVars, fetchVars, oauthVars>>

SpecMutate == InitMutate /\ [][NextMutate]_vars

InitList ==
    /\ now = 1
    /\ doc \in PersistedDocs
    /\ returned = Undefined
    /\ supplied = {}
    /\ UpsertIdle
    /\ mailbox \in Mailboxes
    /\ listLog = [flip |-> FALSE, status |-> 0, threadIds |-> <<>>, maxThreads |-> 0,
                  processedCount |-> 0, requests |-> 0]
    /\ ExtractIdle
    /\ RoundIdle
    /\ LaterIdle

NextList ==
    ListRequest /\ UNCHANGED <<now, returned, supplied, collectionName, qdrant,
                               upsertLog, latest, llmOutput, extraction, threadOutcome,
                    settings, panel, rounds, previewLog, laterVars>>

SpecList == InitList /\ [][NextList]_vars

InitExtract ==
    /\ now = 1
    /\ StoreIdle
    /\ UpsertIdle
    /\ ListIdle
    /\ llmOutput \in LlmOutputs
    /\ extraction = [done |-> FALSE, ok |-> FALSE, entries |-> <<>>]
    /\ RoundIdle
    /\ LaterIdle

NextExtract ==
    Extract /\ UNCHANGED <<now, doc, returned, supplied, collectionName, qdrant,
                           upsertLog, latest, mailbox, listLog, threadOutcome,
                           settings, panel, rounds, previewLog, laterVars>>

SpecExtract == InitExtract /\ [][NextExtract]_vars

InitRound ==
    /\ now = 1
    /\ StoreIdle
    /\ UpsertIdle
    /\ \E scenario \in RoundScenarios :
          /\ mailbox = scenario.mailbox
          /\ threadOutcome = scenario.threadOutcome
          /\ settings = scenario.settings
    /\ listLog = [flip |-> FALSE, status |-> 0, threadIds |-> <<>>, maxThreads |-> 0,
                  processedCount |-> 0, requests |-> 0]
    /\ ExtractIdle
    /\ panel = PanelAtMount
    /\ rounds = <<>>
    /\ previewLog = [status |-> 0, processedThreads |-> 0, threadsWithQuestions |-> 0,
                     totalQuestions |-> 0, threads |-> <<>>, listed |-> <<>>]
    /\ LaterIdle

\* the panel's previews next to requests to the preview route
NextPreview ==
    \/ GeneratePreview /\ UNCHANGED <<llmOutput, extraction, previewLog, laterVars>>
    \/ WorkerSettles /\ UNCHANGED <<llmOutput, extraction, previewLog, laterVars>>
    \/ PreviewCompletes /\ UNCHANGED <<llmOutput, extraction, previewLog, laterVars>>
    \/ PreviewRequest /\ UNCHANGED <<llmOutput, extraction, laterVars>>

SpecPreview == InitRound /\ [][NextPreview]_vars

\* rounds of the panel: preview, then ingest
NextRound ==
    \/ GeneratePreview /\ UNCHANGED <<llmOutput, extraction, previewLog, laterVars>>
    \/ WorkerSettles /\ UNCHANGED <<llmOutput, extraction, previewLog, laterVars>>
    \/ PreviewCompletes /\ UNCHANGED <<llmOutput, extraction, previewLog, laterVars>>
    \/ IngestSelected /\ UNCHANGED <<llmOutput, extraction, previewLog, laterVars>>

SpecRound == InitRound /\ [][NextRound]_vars

\* rounds of the panel over a state document that may already hold
\* processed ids, stamps, rules and a preview limit
InitReconcile ==
    /\ now = 1
    /\ doc \in { NoDoc, FullDoc }
    /\ returned = Undefined
    /\ supplied = {}
    /\ UpsertIdle
    /\ \E scenario \in RoundScenarios :
          /\ mailbox = scenario.mailbox
          /\ threadOutcome = scenario.threadOutcome
          /\ settings = scenario.settings
          /\ scenario.settings.previewLimitValue # Null
    /\ listLog = [flip |-> FALSE, status |-> 0, threadIds |-> <<>>, maxThreads |-> 0,
                  processedCount |-> 0, requests |-> 0]
    /\ ExtractIdle
    /\ panel = PanelAtMount
    /\ rounds = <<>>
    /\ previewLog = [status |-> 0, processedThreads |-> 0, threadsWithQuestions |-> 0,
                     totalQuestions |-> 0, threads |-> <<>>, listed |-> <<>>]
    /\ LaterIdle

SpecReconcile == InitReconcile /\ [][NextRound]_vars

\* one call into the state store, on any persisted document
InitCall ==
    /\ now = 1
    /\ doc \in CallDocs
    /\ returned = Undefined
    /\ supplied = {}
    /\ UpsertIdle
    /\ ListIdle
    /\ ExtractIdle
    /\ RoundIdle
    /\ \E c \in Calls : callers = <<c>>
    /\ BodyIdle
    /\ AbortIdle
    /\ AuthIdle
    /\ SyncIdle
    /\ FetchIdle
    /\ OAuthIdle

NextCall ==
    \/ CallerReads /\ UNCHANGED <<collectionName, qdrant, upsertLog, latest,
                                  mailbox, listLog, extractVars, bodyVars, abortVars, authVars, syncVars, fetchVars, oauthVars>>
    \/ CallerWrites /\ UNCHANGED <<collectionName, qdrant, upsertLog, latest,
                                   mailbox, listLog, extractVars, bodyVars, abortVars, authVars, syncVars, fetchVars, oauthVars>>

SpecCall == InitCall /\ [][NextCall]_vars

\* two calls into the state store at once
InitRace ==
    /\ now = 1
    /\ doc \in CallDocs
    /\ returned = Undefined
    /\ supplied = {}
    /\ UpsertIdle
    /\ ListIdle
    /\ ExtractIdle
    /\ RoundIdle
    /\ \E c1, c2 \in RacingCalls : callers = <<c1, c2>>
    /\ BodyIdle
    /\ AbortIdle
    /\ AuthIdle
    /\ SyncIdle
    /\ FetchIdle
    /\ OAuthIdle

SpecRace == InitRace /\ [][NextCall]_vars

\* two writing calls at once, each await a step
InitWrite ==
    /\ now = 1
    /\ doc \in CallDocs
    /\ returned = Undefined
    /\ supplied = {}
    /\ UpsertIdle
    /\ ListIdle
    /\ ExtractIdle
    /\ RoundIdle
    /\ \E c1, c2 \in Writers : callers = <<c1, c2>>
    /\ BodyIdle
    /\ AbortIdle
    /\ AuthIdle
    /\ SyncIdle
    /\ FetchIdle
    /\ OAuthIdle

NextWrite ==
    \/ WriterReads /\ UNCHANGED <<collectionName, qdrant, upsertLog, latest,
                                  mailbox, listLog, extractVars, bodyVars, abortVars, authVars, syncVars, fetchVars, oauthVars>>
    \/ WriterStamps /\ UNCHANGED <<collectionName, qdrant, upsertLog, latest,
                                   mailbox, listLog, extractVars, bodyVars, abortVars, authVars, syncVars, fetchVars, oauthVars>>
    \/ WriterLands /\ UNCHANGED <<collectionName, qdrant, upsertLog, latest,
                                  mailbox, listLog, extractVars, bodyVars, abortVars, authVars, syncVars, fetchVars, oauthVars>>

SpecWrite == InitWrite /\ [][NextWrite]_vars

\* the manual sync panel processing the threads it was handed
InitSync ==
    /\ now = 1
    /\ StoreIdle
    /\ UpsertIdle
    /\ ListIdle
    /\ ExtractIdle
    /\ \E scenario \in RoundScenarios :
          /\ threadOutcome = scenario.threadOutcome
          /\ settings = scenario.settings
    /\ panel = PanelAtMount
    /\ rounds = <<>>
    /\ previewLog = [status |-> 0, processedThreads |-> 0, threadsWithQuestions |-> 0,
                     totalQuestions |-> 0, threads |-> <<>>, listed |-> <<>>]
    /\ CallersIdle
    /\ BodyIdle
    /\ AbortIdle
    /\ AuthIdle
    /\ FetchIdle
    /\ OAuthIdle
    /\ \E threads \in SyncThreadLists, env \in SyncConcurrencies :
          syncPanel = SyncAtMount(threads, env)

NextSync ==
    \/ HandleProcess /\ UNCHANGED <<storeVars, collectionName, qdrant, upsertLog, latest,
                                    mailbox, listLog, extractVars, callerVars, bodyVars,
                                    abortVars, authVars, fetchVars, oauthVars>>
    \/ SyncWorkerSettles /\ UNCHANGED <<storeVars, collectionName, qdrant, upsertLog, latest,
                                        mailbox, listLog, extractVars, callerVars, bodyVars,
                                        abortVars, authVars, fetchVars, oauthVars>>
    \/ SyncCompletes /\ UNCHANGED <<storeVars, collectionName, qdrant, upsertLog, latest,
                                    mailbox, listLog, extractVars, callerVars, bodyVars,
                                    abortVars, authVars, fetchVars, oauthVars>>

SpecSync == InitSync /\ [][NextSync]_vars

InitOAuth ==
    /\ now = 1
    /\ StoreIdle
    /\ UpsertIdle
    /\ ListIdle
    /\ ExtractIdle
    /\ RoundIdle
    /\ CallersIdle /\ BodyIdle /\ AbortIdle /\ AuthIdle /\ SyncIdle
    /\ fetchRun = FetchAtRest
    /\ oauth \in { OAuthAtRest, [OAuthAtRest EXCEPT !.sessionCookie = EarlierSession] }

OtherThanOAuth ==
    <<now, doc, returned, supplied, collectionName, qdrant, upsertLog, latest,
      mailbox, listLog, extractVars, callerVars, bodyVars, abortVars, authVars,
      syncVars, fetchVars>>

NextOAuth ==
    \/ OAuthStart /\ UNCHANGED OtherThanOAuth
    \/ OAuthCallback /\ UNCHANGED OtherThanOAuth
    \/ OAuthLogout /\ UNCHANGED OtherThanOAuth
    \/ OAuthStateCookieExpires /\ UNCHANGED OtherThanOAuth

SpecOAuth == InitOAuth /\ [][NextOAuth]_vars

InitFetch ==
    /\ now = 1
    /\ StoreIdle
    /\ UpsertIdle
    /\ mailbox \in FetchSources
    /\ listLog = [flip |-> FALSE, status |-> 0, threadIds |-> <<>>, maxThreads |-> 0,
                  processedCount |-> 0, requests |-> 0]
    /\ ExtractIdle
    /\ RoundIdle
    /\ LaterIdle

FetchCalled ==
    FetchStarts /\ UNCHANGED <<storeVars, collectionName, qdrant, upsertLog, latest,
                               listLog, extractVars, callerVars, bodyVars, abortVars,
                               authVars, syncVars, oauthVars>>
FetchAnswered ==
    FetchPageArrives /\ UNCHANGED <<storeVars, collectionName, qdrant, upsertLog,
                                    latest, listLog, extractVars, callerVars, bodyVars,
                                    abortVars, authVars, syncVars, oauthVars>>

NextFetch ==
    \/ FetchCalled
    \/ FetchAnswered

\* every request of users.threads.list is answered
SpecFetch == InitFetch /\ [][NextFetch]_vars /\ WF_vars(FetchAnswered)

\* the threads of a mailbox, page after page
RECURSIVE Listing(_)
Listing(pages) == IF pages = <<>> THEN <<>> ELSE Head(pages) \o Listing(Tail(pages))

\* both panels on one mailbox, each with its pool; the builds' two
\* concurrency settings are given the same text
InitPools ==
    /\ now = 1
    /\ StoreIdle
    /\ UpsertIdle
    /\ \E scenario \in RoundScenarios :
          /\ mailbox = scenario.mailbox
          /\ threadOutcome = scenario.threadOutcome
          /\ settings = scenario.settings
          /\ syncPanel = SyncAtMount(Listing(scenario.mailbox),
                                     scenario.settings.concurrency)
    /\ listLog = [flip |-> FALSE, status |-> 0, threadIds |-> <<>>, maxThreads |-> 0,
                  processedCount |-> 0, requests |-> 0]
    /\ ExtractIdle
    /\ panel = PanelAtMount
    /\ rounds = <<>>
    /\ previewLog = [status |-> 0, processedThreads |-> 0, threadsWithQuestions |-> 0,
                     totalQuestions |-> 0, threads |-> <<>>, listed |-> <<>>]
    /\ CallersIdle
    /\ BodyIdle
    /\ AbortIdle
    /\ AuthIdle
    /\ FetchIdle
    /\ OAuthIdle

PreviewStarts ==
    GeneratePreview /\ UNCHANGED <<llmOutput, extraction, previewLog, laterVars>>
PreviewCallSettles ==
    WorkerSettles /\ UNCHANGED <<llmOutput, extraction, previewLog, laterVars>>
PreviewPoolDone ==
    PreviewCompletes /\ UNCHANGED <<llmOutput, extraction, previewLog, laterVars>>
SyncStarts ==
    HandleProcess /\ UNCHANGED <<storeVars, collectionName, qdrant, upsertLog, latest,
                                 mailbox, listLog, extractVars, callerVars, bodyVars,
                                 abortVars, authVars, fetchVars, oauthVars>>
SyncCallSettles ==
    SyncWorkerSettles /\ UNCHANGED <<storeVars, collectionName, qdrant, upsertLog,
                                     latest, mailbox, listLog, extractVars, callerVars,
                                     bodyVars, abortVars, authVars, fetchVars, oauthVars>>
SyncPoolDone ==
    SyncCompletes /\ UNCHANGED <<storeVars, collectionName, qdrant, upsertLog, latest,
                                 mailbox, listLog, extractVars, callerVars, bodyVars,
                                 abortVars, authVars, fetchVars, oauthVars>>

NextPools ==
    \/ PreviewStarts
    \/ PreviewCallSettles
    \/ PreviewPoolDone
    \/ SyncStarts
    \/ SyncCallSettles
    \/ SyncPoolDone

\* every request under way settles, and a continuation that can run is run
\* by the event loop; when the operator starts a round is left open
SpecPools ==
    /\ InitPools
    /\ [][NextPools]_vars
    /\ WF_vars(PreviewCallSettles)
    /\ WF_vars(PreviewPoolDone)
    /\ WF_vars(SyncCallSettles)
    /\ WF_vars(SyncPoolDone)

\* the body of one message
InitBody ==
    /\ now = 1
    /\ StoreIdle
    /\ UpsertIdle
    /\ ListIdle
    /\ ExtractIdle
    /\ RoundIdle
    /\ CallersIdle
    /\ gmailMessage \in Messages
    /\ messageBody = [done |-> FALSE, text |-> <<>>]
    /\ AbortIdle
    /\ AuthIdle
    /\ SyncIdle
    /\ FetchIdle
    /\ OAuthIdle

NextBody ==
    ExtractBody /\ UNCHANGED <<storeVars, collectionName, qdrant, upsertLog, latest,
                               mailbox, listLog, extractVars, callerVars, abortVars,
                               authVars, syncVars, fetchVars, oauthVars>>

SpecBody == InitBody /\ [][NextBody]_vars

\* previews of the panel that the operator may ask to stop
NextAbort ==
    \/ GeneratePreview /\ abortSignal' = FALSE
          /\ UNCHANGED <<llmOutput, extraction, previewLog, callerVars, bodyVars,
                         authVars, syncVars, fetchVars, oauthVars>>
    \/ WorkerSettles
          /\ UNCHANGED <<llmOutput, extraction, previewLog, laterVars>>
    \/ PreviewCompletes
          /\ UNCHANGED <<llmOutput, extraction, previewLog, laterVars>>
    \/ Abort
          /\ UNCHANGED <<llmOutput, extraction, previewLog, callerVars, bodyVars,
                         authVars, syncVars, fetchVars, oauthVars>>

SpecAbort == InitRound /\ [][NextAbort]_vars

\* requests to the routes that ask for a session
NextAuth ==
    \/ ListRouteRequest
          /\ UNCHANGED <<storeVars, collectionName, qdrant, upsertLog, latest, mailbox,
                         listLog, extractVars, callerVars, bodyVars, abortVars, syncVars, fetchVars, oauthVars>>
    \/ ThreadQaRouteRequest
          /\ UNCHANGED <<storeVars, collectionName, qdrant, upsertLog, latest, mailbox,
                         listLog, extractVars, callerVars, bodyVars, abortVars, syncVars, fetchVars, oauthVars>>
    \/ PreviewRouteRequest
          /\ UNCHANGED <<storeVars, collectionName, qdrant, upsertLog, latest, mailbox,
                         listLog, extractVars, callerVars, bodyVars, abortVars, syncVars, fetchVars, oauthVars>>
    \/ SyncRouteRequest
          /\ UNCHANGED <<storeVars, collectionName, qdrant, upsertLog, latest, mailbox,
                         listLog, extractVars, callerVars, bodyVars, abortVars, syncVars, fetchVars, oauthVars>>

SpecAuth == InitRound /\ [][NextAuth]_vars

NoDuplicates(a) == \A i, j \in DOMAIN a : a[i] = a[j] => i = j

-----------------------------------------------------------------------------
(* Claims about the state store                                            *)

\* C2 as stated: after any sequence of store calls the persisted processed
\* set equals the union of all ids ever supplied, without duplicates.
C2_ProcessedEqualsAllSupplied ==
    /\ ProcessedSet = supplied
    /\ NoDuplicates(ProcessedArray)

\* C2, amended: the persisted processed set equals the union of all
\* non-empty ids ever supplied (an empty-string id is dropped, never
\* stored), and the persisted array holds no id twice.
C2_ProcessedEqualsNonEmptySupplied ==
    /\ ProcessedSet = supplied \ {EmptyId}
    /\ NoDuplicates(ProcessedArray)

\* addProcessedThreads has run, with repeats and an empty id among its input
C2_Witness ==
    /\ supplied = {IdA, IdB, EmptyId}
    /\ ProcessedArray = <<IdB, IdA>>
    /\ doc.lastFullIngestAt = Iso(MaxClock)

\* C6: across update, addProcessedThreads and POST to the state endpoint the
\* persisted processed set only grows (an id once persisted stays
\* persisted), and it never holds a duplicate or an empty id.
C6_ProcessedOnlyGrows ==
    /\ [](NoDuplicates(ProcessedArray) /\ EmptyId \notin ProcessedSet)
    /\ [][ProcessedSet \subseteq ProcessedSet']_vars

\* the set is full and a later update of another field has left it in place
C6_Witness ==
    /\ ProcessedSet = ThreadIds
    /\ EmptyId \in supplied
    /\ doc # NoDoc
    /\ doc.rules = Str(<<"r">>)
    /\ doc.lastPreviewAt = Iso(MaxClock)

-----------------------------------------------------------------------------
(* Claims about the upsert stage                                           *)

StoredPoints == IF qdrant = NoCollection THEN << >> ELSE qdrant.points

PointsOfPair(pair) ==
    { id \in DOMAIN StoredPoints :
        <<StoredPoints[id].payload.threadId, StoredPoints[id].payload.question>> = pair }

\* C1: upserting the same (threadId, question, answer) twice, in one request
\* or in two, leaves exactly one stored point for the pair: every upsert of
\* the pair addresses createStablePointId(threadId, question), the stored
\* point is the one written last, and the point count is the number of
\* distinct pairs ever written, so a second upsert does not raise it.
C1_UpsertTwiceOnePoint ==
    /\ PointCount = Cardinality(DOMAIN latest)
    /\ \A pair \in DOMAIN latest :
          /\ PointsOfPair(pair) = { createStablePointId(pair[1], pair[2]) }
          /\ \A id \in PointsOfPair(pair) :
                /\ StoredPoints[id].payload.answer = latest[pair].answer
                /\ StoredPoints[id].payload.ingestedAt = Iso(latest[pair].at)

\* the same item was written twice, the second time at a later instant, and
\* the store holds one point
C1_Witness ==
    /\ PointCount = 1
    /\ DOMAIN latest = { PairOf(ItemYes) }
    /\ latest[PairOf(ItemYes)] = [answer |-> AnswerYes, at |-> MaxClock, times |-> 2]
    /\ upsertLog.status = 200

\* C10: when the collection exists with another vector size than the
\* embeddings computed for the request, the route answers with an error,
\* issues neither createCollection nor upsert, and leaves the collection and
\* its points as they were.
C10_MismatchAbortsWithoutCalls ==
    [][ ( /\ upsertLog'.flip # upsertLog.flip
          /\ upsertLog'.size # 0
          /\ qdrant # NoCollection
          /\ qdrant.size # upsertLog'.size )
        => ( /\ upsertLog'.status = 500
             /\ "createCollection" \notin upsertLog'.calls
             /\ "upsert" \notin upsertLog'.calls
             /\ qdrant' = qdrant ) ]_vars

-----------------------------------------------------------------------------
(* Claims about the thread enumerator                                      *)

\* C3: the thread-list operation returns only ids of C \ P (C the mailbox's
\* candidate pool, P the persisted processed set), each once, and exactly
\* min(maxThreads, |C \ P|) of them: the limit bounds unprocessed threads,
\* not the ids fetched.
C3_ListReturnsUnprocessedUpToLimit ==
    listLog.status = 200 =>
        /\ Range(listLog.threadIds) \subseteq CandidatePool \ ProcessedSet
        /\ NoDuplicates(listLog.threadIds)
        /\ Len(listLog.threadIds)
             = Min(listLog.maxThreads, Cardinality(CandidatePool \ ProcessedSet))

\* the limit cut the answer short of the unprocessed pool, and processed
\* threads were skipped on the way
C3_Witness ==
    /\ listLog.status = 200
    /\ listLog.maxThreads = 2
    /\ ProcessedSet = {IdA}
    /\ listLog.threadIds = <<IdB, IdC>>
    /\ CandidatePool = {IdA, IdB, IdC, IdD}

-----------------------------------------------------------------------------
(* Claims about the LLM extraction call                                    *)

\* the array the model's output parses to, each entry's texts trimmed
StringOf(v) == IF v.k = "string" THEN v.s ELSE <<>>

ParsedEntries ==
    LET text == cleanModelOutput(llmOutput)
        a == IF text = Null THEN <<>> ELSE JsonParse(text.s).v.a
    IN [i \in DOMAIN a |->
          [question |-> Trim(StringOf(Get(a[i], "question"))),
           answer |-> Trim(StringOf(Get(a[i], "answer")))]]

Excluded(entry) ==
    \/ entry.question = <<>>
    \/ entry.answer = <<>>
    \/ ToLowerCase(entry.answer) \in {Unknown, NotApplicable}

Included(entry) == ~Excluded(entry)

\* C8: an extraction that succeeds returns no entry whose trimmed question
\* or trimmed answer is empty and none whose answer is, whatever its case,
\* "unknown" or "n/a"; every other parsed entry is in the result, trimmed,
\* in the order the model wrote them.
C8_ResultIsTheFilteredEntries ==
    (extraction.done /\ extraction.ok) =>
        /\ \A i \in DOMAIN extraction.entries :
              LET entry == extraction.entries[i]
              IN /\ ~Excluded(entry)
                 /\ entry.question = Trim(entry.question)
                 /\ entry.answer = Trim(entry.answer)
        /\ extraction.entries = SelectSeq(ParsedEntries, Included)

\* of two entries in a tagged fence, the one answered "Unknown" is gone and
\* the other is returned with its padding trimmed
C8_Witness ==
    /\ extraction.done
    /\ extraction.ok
    /\ llmOutput = Str(Wrapped(<<JsonText(Arr(<<QA(QuestionB, <<"U", "n", "k", "n", "o", "w", "n">>),
                                                QA(<<" ">> \o QuestionB, AnswerNo)>>))>>, "json"))
    /\ extraction.entries = <<[question |-> QuestionB, answer |-> AnswerNo]>>

\* v is an array of objects that carry a question and an answer string
IsQuestionAnswerArray(v) ==
    /\ IsArray(v)
    /\ \A i \in DOMAIN v.a :
          /\ v.a[i].k = "object"
          /\ IsString(Get(v.a[i], "question"))
          /\ IsString(Get(v.a[i], "answer"))

\* the output, its fence stripped, is the text of such an array
IsExpectedOutput(raw) ==
    LET text == cleanModelOutput(raw)
    IN /\ text # Null
       /\ JsonParse(text.s).ok
       /\ IsQuestionAnswerArray(JsonParse(text.s).v)

\* C9: when the model's output, its optional fence stripped, is no JSON array
\* of {question, answer} objects, the extraction fails with an error and is
\* never a successful empty result; and an output inside a fence is parsed
\* as the same output without the fence is.
C9_UnexpectedOutputIsAnError ==
    (extraction.done /\ llmOutput.k # "throws") =>
        /\ ~IsExpectedOutput(llmOutput) => ~extraction.ok
        /\ \A body \in Bodies : \A wrapper \in {"fence", "json", "JSON"} :
              llmOutput = Str(Wrapped(body, wrapper)) =>
                 [ok |-> extraction.ok, entries |-> extraction.entries]
                    = extractQuestionsAndAnswersFromThread(Str(body))

-----------------------------------------------------------------------------
(* Claims about the rounds of the panel                                    *)

\* fetching or extracting thread id fails: on the server, and as the panel
\* sees it
FailsOnServer(id) ==
    \/ ~threadOutcome[id].detail
    \/ ~extractQuestionsAndAnswersFromThread(threadOutcome[id].llm).ok

Fails(id) == ~threadOutcome[id].net \/ FailsOnServer(id)

\* the preview entry of a thread that was fetched and extracted
PreviewThreadOf(id) ==
    [threadId |-> id, createdAt |-> Null,
     questions |-> extractQuestionsAndAnswersFromThread(threadOutcome[id].llm).entries]

\* C4: in a preview round a candidate X whose fetch or extraction fails
\* (an exception or a non-OK response) does not stop the pool: the round
\* counts every candidate, X among them, records X among the attempted ids
\* and reports no entry for it, while every other candidate is attempted and
\* those that yield entries appear with them in the round's result. The
\* server-side preview route does the same in its loop.
C4_FailureIsIsolated ==
    /\ (~panel.isGenerating /\ panel.preview # Null /\ Len(panel.workers) >= 1) =>
          \A x \in Range(panel.threadIds) : Fails(x) =>
             /\ panel.preview.processedThreads = Len(panel.threadIds)
             /\ x \in Range(panel.latestPreviewThreadIds)
             /\ \A i \in DOMAIN panel.preview.threads :
                   panel.preview.threads[i].threadId # x
             /\ \A y \in Range(panel.threadIds) \ {x} :
                   /\ y \in Range(panel.latestPreviewThreadIds)
                   /\ (~Fails(y) /\ PreviewThreadOf(y).questions # <<>>)
                         => PreviewThreadOf(y) \in Range(panel.preview.threads)
    /\ previewLog.status = 200 =>
          \A x \in Range(previewLog.listed) : FailsOnServer(x) =>
             /\ previewLog.processedThreads = Len(previewLog.listed)
             /\ \A i \in DOMAIN previewLog.threads : previewLog.threads[i].threadId # x
             /\ \A y \in Range(previewLog.listed) \ {x} :
                   (~FailsOnServer(y) /\ PreviewThreadOf(y).questions # <<>>)
                      => PreviewThreadOf(y) \in Range(previewLog.threads)

\* thread a's extraction failed in a pool of two workers and in the route's
\* loop; both counted it and both report the threads after it
C4_Witness ==
    /\ ~panel.isGenerating
    /\ panel.threadIds = <<IdA, IdB>>
    /\ Len(panel.workers) = 2
    /\ Fails(IdA)
    /\ panel.preview # Null
    /\ panel.preview.processedThreads = 2
    /\ panel.latestPreviewThreadIds = <<IdB, IdA>>
    /\ panel.preview.threads = <<PreviewThreadOf(IdB)>>
    /\ previewLog.status = 200
    /\ previewLog.processedThreads = 3
    /\ previewLog.threads = <<PreviewThreadOf(IdB), PreviewThreadOf(IdC)>>

\* C5 as stated: whenever a round has run in full (list, extract, upsert,
\* state reconciled), the round after it leaves the vector store with the
\* points, and so the point count, the first one left.
C5_SecondRoundChangesNothing ==
    \A i \in 1..(Len(rounds) - 1) :
        rounds[i].complete => rounds[i + 1].points = rounds[i].points

\* C5: when a round has run in full and its thread list was not cut short
\* by the limit (it listed every unprocessed thread of the mailbox), the
\* round after it leaves the vector store with the points, and so the point
\* count, the first one left.
C5_SecondRoundAfterFullListChangesNothing ==
    \A i \in 1..(Len(rounds) - 1) :
        (rounds[i].complete /\ ~rounds[i].cut)
            => rounds[i + 1].points = rounds[i].points

\* the first round listed all three threads, stored points and reconciled;
\* the second listed nothing and ran to its end
C5_Witness ==
    /\ Len(rounds) = 2
    /\ rounds[1].complete /\ ~rounds[1].cut
    /\ rounds[1].points # NoCollection
    /\ Cardinality(DOMAIN rounds[1].points.points) = 2
    /\ Cardinality(CandidatePool) = 3
    /\ rounds[2].complete
    /\ listLog.status = 200 /\ listLog.threadIds = <<>>
    /\ PointCount = 2

\* C7: the persisted processed set keeps every id it holds, and no
\* thread-list call returns an id that is in it when the call is made; so a
\* thread marked processed, also one whose extraction failed in the round
\* that marked it, is listed by no later round.
C7_ProcessedNeverListedAgain ==
    [][ /\ ProcessedSet \subseteq ProcessedSet'
        /\ (listLog'.flip # listLog.flip /\ listLog'.status = 200)
              => Range(listLog'.threadIds) \cap ProcessedSet = {} ]_vars

\* thread a failed in the round that marked it and thread b; the next round
\* listed thread c alone
C7_Witness ==
    /\ Len(rounds) = 2
    /\ Fails(IdA)
    /\ {IdA, IdB} \subseteq ProcessedSet
    /\ CandidatePool = {IdA, IdB, IdC}
    /\ listLog.status = 200
    /\ listLog.processedCount = 2
    /\ listLog.threadIds = <<IdC>>

-----------------------------------------------------------------------------
(* Claims about single and overlapping calls into the state store          *)

\* C11: a readIngestState that finds no persisted document returns the
\* default state (no processed ids, empty rules, preview limit null), does
\* not throw, and leaves the document absent.
C11_ReadWithoutDocumentGivesDefault ==
    \A i \in DOMAIN callers :
        LET c == callers[i]
        IN (c.op = "readIngestState" /\ c.pc # "start"
              /\ c.before = NoDoc /\ c.met = "ok")
           => /\ c.pc = "done"
              /\ c.result.processedThreadIds = Arr(<<>>)
              /\ c.result.rules = Str(<<>>)
              /\ c.result.previewMaxThreads = Null
              /\ \A f \in StateFields \ {"processedThreadIds", "rules",
                                         "previewMaxThreads"} :
                     c.result[f] = Undefined
              /\ doc = NoDoc

C11_Witness ==
    /\ callers # <<>>
    /\ callers[1].op = "readIngestState"
    /\ callers[1].pc = "done"
    /\ callers[1].before = NoDoc
    /\ doc = NoDoc

\* the ids an update hands over that are thread ids at all
SuppliedIds(update) == IdsOf(update.processedThreadIds) \ {EmptyId}

\* C12: after updateIngestState(update), every field the update does not
\* have reads as it did before the call (lastUpdatedAt excepted), and the
\* processed ids are the previous ones together with the ids of the update.
C12_UpdateKeepsAbsentFieldsAndUnionsIds ==
    \A i \in DOMAIN callers :
        LET c == callers[i]
            after == readIngestState(doc)
            previous == readIngestState(c.before)
        IN (c.op = "updateIngestState" /\ c.pc = "done")
           => /\ \A f \in StateFields \ {"lastUpdatedAt"} :
                     c.arg[f] = Undefined => after[f] = previous[f]
              /\ Range(after.processedThreadIds.a)
                     = Range(previous.processedThreadIds.a) \cup SuppliedIds(c.arg)

C12_Witness ==
    /\ callers # <<>>
    /\ callers[1].op = "updateIngestState"
    /\ callers[1].pc = "done"
    /\ callers[1].before = FullDoc
    /\ callers[1].arg.processedThreadIds = Arr(<<IdB>>)
    /\ callers[1].arg.rules = Undefined
    /\ ProcessedSet = {IdA, IdB}
    /\ doc.rules = Str(<<"q">>)

\* both calls wrote, and both had read before either wrote
BothReadBeforeEitherWrote ==
    /\ Len(callers) = 2
    /\ \A i \in DOMAIN callers :
           callers[i].pc = "done" /\ callers[i].wrote > 0 /\ callers[i].seen = 0

\* C18: when two calls race so that both read before either writes, the
\* document left once both have completed is the one the later writer would
\* have left on its own: nothing of the earlier write survives in it.
C18_RaceLeavesOnlyTheLaterWrite ==
    BothReadBeforeEitherWrote
    => \A i \in DOMAIN callers :
           callers[i].wrote = 2
           => doc = writeBack(callers[i], callers[i].before, now).file

\* both calls have completed and the id the earlier one added is not persisted
C18_Witness ==
    /\ BothReadBeforeEitherWrote
    /\ \E i \in DOMAIN callers :
           /\ callers[i].wrote = 1
           /\ callers[i].op = "addProcessedThreads"
           /\ callers[i].arg = Arr(<<IdB>>)
           /\ IdB \in Range(callers[i].result.processedThreadIds.a)
           /\ IdB \notin ProcessedSet

-----------------------------------------------------------------------------
(* Claims about the body of a message                                      *)

\* the first part at or below part, parent before children and children in
\* order, that has the MIME type and data; Undefined when there is none
RECURSIVE FirstPart(_, _)
RECURSIVE FirstAmong(_, _)
FirstAmong(children, mimeType) ==
    IF children = <<>> THEN Undefined
    ELSE LET found == FirstPart(Head(children), mimeType)
         IN IF found # Undefined THEN found
            ELSE FirstAmong(Tail(children), mimeType)

FirstPart(part, mimeType) ==
    IF part.mimeType = mimeType /\ part.data # <<>> THEN part
    ELSE FirstAmong(part.parts, mimeType)

\* some part at or below part has the MIME type, with or without data
RECURSIVE Holds(_, _)
Holds(part, mimeType) ==
    \/ part.mimeType = mimeType
    \/ \E i \in DOMAIN part.parts : Holds(part.parts[i], mimeType)

\* C13: the extracted body is the decoded data of the first text/plain part
\* with data; failing that the decoded data of the first text/html part with
\* data, tags replaced and white space collapsed; failing that the decoded
\* data of the root; failing that the empty string. A message with a
\* text/plain part with data and a text/html part gives the decoded plain
\* text wherever the two sit.
C13_BodyFollowsPreferenceOrder ==
    messageBody.done
    => IF gmailMessage = Null THEN messageBody.text = <<>>
       ELSE LET plain == FirstPart(gmailMessage, "text/plain")
                html == FirstPart(gmailMessage, "text/html")
            IN /\ plain # Undefined
                    => messageBody.text = decodeMessageBody(plain.data)
               /\ (plain = Undefined /\ html # Undefined)
                    => /\ messageBody.text = stripHtml(decodeMessageBody(html.data))
                       /\ \A i \in DOMAIN messageBody.text :
                              /\ messageBody.text[i] \notin {"\n", "\t"}
                              /\ (messageBody.text[i] = " "
                                    => /\ 1 < i /\ i < Len(messageBody.text)
                                       /\ messageBody.text[i + 1] # " ")
               /\ (plain = Undefined /\ html = Undefined)
                    => messageBody.text = decodeMessageBody(gmailMessage.data)
               /\ (plain # Undefined /\ Holds(gmailMessage, "text/html"))
                    => messageBody.text = decodeMessageBody(plain.data)

\* the plain part sits below and after an html part with data, and wins;
C13_Witness ==
    /\ messageBody.done
    /\ gmailMessage # Null
    /\ Len(gmailMessage.parts) = 2
    /\ Len(gmailMessage.parts[1].parts) = 2
    /\ gmailMessage.parts[1].parts[1] = Part("text/html", DataBoldHi, <<>>)
    /\ gmailMessage.parts[1].parts[2] = Part("text/plain", DataHi, <<>>)
    /\ messageBody.text = <<"h", "i", " ">>

-----------------------------------------------------------------------------
(* Claims about the panel's worker pool and what a round persists          *)

\* where an id stands in a list of candidates
PositionIn(list, id) ==
    CHOOSE i \in DOMAIN list : list[i] = id /\ \A j \in 1..(i - 1) : list[j] # id

\* C14: the threads of a completed preview stand in the order of the
\* candidate list, in whatever order the workers pushed their results.
C14_PreviewInCandidateOrder ==
    panel.preview # Null
    => LET threads == panel.preview.threads
       IN \A i, j \in DOMAIN threads :
              i < j => PositionIn(panel.threadIds, threads[i].threadId)
                         < PositionIn(panel.threadIds, threads[j].threadId)

\* a preview of two threads whose results were pushed in the other order
C14_Witness ==
    /\ panel.preview # Null
    /\ Len(panel.preview.threads) = 2
    /\ panel.results[1].order > panel.results[2].order
    /\ panel.preview.threads[1] = panel.results[2].thread

\* C15: when the summary of a preview is built, every index of the
\* candidate list has been claimed, no request of the round is in flight
\* and as many units have settled as there are candidates.
C15_CompletionOnlyAfterAllSettled ==
    panel.preview # Null
    => /\ panel.currentIndex >= Len(panel.threadIds)
       /\ \A w \in DOMAIN panel.workers : panel.workers[w].pc = "done"
       /\ panel.processedThreadsLocal = Len(panel.threadIds)

RECURSIVE QuestionCount(_)
QuestionCount(threads) ==
    IF threads = <<>> THEN 0
    ELSE Len(Head(threads).questions) + QuestionCount(Tail(threads))

\* C16: in the summary of a completed preview, processedThreads is the
\* number of candidates, threadsWithQuestions the number of listed threads,
\* totalQuestions the sum of their entries, and every listed thread has an
\* entry.
C16_AggregateIsConsistent ==
    panel.preview # Null
    => /\ panel.preview.processedThreads = Len(panel.threadIds)
       /\ panel.preview.threadsWithQuestions = Len(panel.preview.threads)
       /\ panel.preview.totalQuestions = QuestionCount(panel.preview.threads)
       /\ \A i \in DOMAIN panel.preview.threads :
              panel.preview.threads[i].questions # <<>>

\* the stamp of a field of the persisted document, Undefined without one
Stamp(d, field) == IF d = NoDoc THEN Undefined ELSE d[field]

\* handleGeneratePreview ends in this step without reaching its catch block
PreviewEndsWell ==
    /\ \/ panel.isGenerating
       \/ Len(rounds') > Len(rounds)
    /\ ~panel'.isGenerating
    /\ panel'.statusVariant # "error"

\* handleIngestSelected ends in this step without reaching its catch block
IngestEndsWell ==
    /\ upsertLog'.flip # upsertLog.flip
    /\ panel'.statusVariant = "success"

\* C17 as stated: once a round has completed, preview or ingest, the ids
\* it attempted are persisted as processed and the time of its mode is stamped.
C17_RoundPersistsAttemptedIds ==
    [][ /\ PreviewEndsWell
           => /\ Range(panel'.latestPreviewThreadIds) \subseteq ProcessedSet'
              /\ Stamp(doc', "lastPreviewAt") = Iso(now')
        /\ IngestEndsWell
           => /\ Range(panel.latestPreviewThreadIds) \subseteq ProcessedSet'
              /\ Stamp(doc', "lastFullIngestAt") = Iso(now') ]_vars

\* C17, amended: an ingest that completes persists every id its preview
\* attempted as processed and stamps lastFullIngestAt; a preview that
\* completes stamps lastPreviewAt and leaves the processed ids and
\* lastFullIngestAt as they were.
C17_IngestPersistsAttemptedIdsPreviewOnlyStamps ==
    [][ /\ PreviewEndsWell
           => /\ ProcessedSet' = ProcessedSet
              /\ Stamp(doc', "lastFullIngestAt") = Stamp(doc, "lastFullIngestAt")
              /\ Stamp(doc', "lastPreviewAt") = Iso(now')
        /\ IngestEndsWell
           => /\ Range(panel.latestPreviewThreadIds) \subseteq ProcessedSet'
              /\ Stamp(doc', "lastFullIngestAt") = Iso(now')
              /\ Stamp(doc', "lastPreviewAt") = Stamp(doc, "lastPreviewAt") ]_vars

\* an ingest has completed after a preview in which a thread failed: the
\* failed thread is persisted as processed with the others
C17_Witness ==
    /\ rounds # <<>>
    /\ panel.statusVariant = "success"
    /\ panel.preview = Null
    /\ upsertLog.status = 200
    /\ Len(panel.latestPreviewThreadIds) = 3
    /\ Range(panel.latestPreviewThreadIds) \subseteq ProcessedSet
    /\ \E id \in ProcessedSet : Fails(id)
    /\ Stamp(doc, "lastFullIngestAt") = Iso(now)
    /\ Stamp(doc, "lastPreviewAt") # Undefined

\* the units of the running preview that have been handed to a worker
Dispatched(p) == Min(p.currentIndex, Len(p.threadIds))

\* the units of the running preview whose outcome has been recorded
Settled(p) == p.processedThreadsLocal

\* C19: once the operator has asked the running round to stop, no further
\* page is requested and no worker takes a further index; the requests in
\* flight settle and are recorded.
C19_AbortStopsNewWork ==
    [][ (abortSignal /\ panel.isGenerating)
        => /\ listLog'.requests = listLog.requests
           /\ Dispatched(panel') = Dispatched(panel)
           /\ Settled(panel') >= Settled(panel) ]_vars

-----------------------------------------------------------------------------
(* Claims about the session cookie                                         *)

\* the sample cookies whose value decodes to an object with tokens
CookiesWithTokens == { [value |-> "eyJ0b2tlbnMiOnsiYWNjZXNzX3Rva2VuIjoieCJ9fQ"] }

\* C20: a request to the thread list, per-thread extraction, preview or
\* batch sync route without a cookie, or with a cookie that does not decode
\* to a session with tokens, is answered 401 and dispatches nothing: no
\* Gmail call, no LLM call, no read of the state document.
C20_NoSessionNoWork ==
    (authLog.route # "" /\ authLog.cookie \notin CookiesWithTokens)
    => /\ authLog.status = 401
       /\ authLog.calls = {}

\* a cookie that decodes to an object without tokens was turned away
C20_Witness ==
    /\ authLog.route = "sync"
    /\ authLog.cookie = [value |-> "eyJwcm9maWxlIjp7ImVtYWlsIjoiYUBiLmMifX0"]
    /\ authLog.status = 401
    /\ authLog.calls = {}

-----------------------------------------------------------------------------
(* Claims about reads that fail and about the times a write stamps         *)

\* the read of call c failed for a reason other than an absent document
ReadFailed(c) == c.pc # "start" /\ (c.met # "ok" \/ c.before \in Unloadable)

\* C21: when the read of the persisted document fails for a reason other
\* than the document being absent (readFile fails, or the content does not
\* load), readIngestState, updateIngestState and addProcessedThreads throw
\* to their caller and write nothing: the document is as the call found it.
C21_FailedReadPropagatesAndWritesNothing ==
    \A i \in DOMAIN callers :
        LET c == callers[i]
        IN ReadFailed(c)
           => /\ c.pc = "threw"
              /\ c.wrote = 0
              /\ c.result = Undefined
              /\ doc = c.before

\* an updateIngestState that found unparseable content has thrown
C21_Witness ==
    /\ callers # <<>>
    /\ callers[1].op = "updateIngestState"
    /\ callers[1].arg.rules = Str(<<"r">>)
    /\ callers[1].pc = "threw"
    /\ callers[1].met = "ok"
    /\ callers[1].before = BadJson
    /\ doc = BadJson

\* the instant a document's lastUpdatedAt names; 0 when it names none
UpdatedAt(d) ==
    IF d = NoDoc \/ d \in Unloadable THEN 0
    ELSE IF "iso" \in DOMAIN d.lastUpdatedAt THEN d.lastUpdatedAt.iso ELSE 0

\* the writeFile of call i resolves in this step
Lands(i) == callers[i].pc = "writeFile" /\ callers'[i].pc = "done"

\* what a landing write leaves of its own stamps: lastUpdatedAt is the
\* instant writeIngestState read, and the lastFullIngestAt that
\* addProcessedThreads stamped is not later than it
StampsOfTheCall(i) ==
    /\ doc'.lastUpdatedAt = Iso(callers[i].stampedAt)
    /\ callers[i].op = "addProcessedThreads"
          => /\ doc'.lastFullIngestAt = Iso(callers[i].fullAt)
             /\ callers[i].fullAt <= UpdatedAt(doc')

\* C22 as stated: every write sets the persisted lastUpdatedAt to the time
\* of that write and never moves it back, and it is never older than the
\* lastFullIngestAt stamped by the same call.
C22_LastUpdatedNeverDecreases ==
    [][\A i \in DOMAIN callers :
          Lands(i) => /\ StampsOfTheCall(i)
                      /\ UpdatedAt(doc) <= UpdatedAt(doc')]_vars

\* C22 as amended: every write sets the persisted lastUpdatedAt to the
\* instant it read from the clock, never older than the lastFullIngestAt
\* stamped by the same call; the persisted lastUpdatedAt does not move back
\* when no other write has landed since the write read the clock.
C22_WriteStampsItsOwnTime ==
    [][\A i \in DOMAIN callers :
          Lands(i) => /\ StampsOfTheCall(i)
                      /\ callers[i].landed = Writes
                            => UpdatedAt(doc) <= UpdatedAt(doc')]_vars

\* an addProcessedThreads landed second, having read the clock after the
\* first write landed, with lastFullIngestAt stamped before lastUpdatedAt
C22_Witness ==
    \E i \in DOMAIN callers :
        /\ callers[i].pc = "done"
        /\ "landed" \in DOMAIN callers[i]
        /\ callers[i].op = "addProcessedThreads"
        /\ callers[i].wrote = 2
        /\ callers[i].landed = 1
        /\ callers[i].fullAt = 1
        /\ callers[i].stampedAt = 2
        /\ doc.lastUpdatedAt = Iso(2)
        /\ doc.lastFullIngestAt = Iso(1)

-----------------------------------------------------------------------------
(* Claims about what the upsert route stores                               *)

\* C23: no point written to the vector store by the upsert route has an empty
\* question or an empty answer, or an answer that is "unknown" or "n/a" in
\* any letter case, whatever batch of items was submitted.
C23_NoSentinelAnswerStored ==
    \A id \in DOMAIN StoredPoints :
        LET payload == StoredPoints[id].payload
        IN /\ payload.question # <<>>
           /\ payload.answer # <<>>
           /\ ToLowerCase(payload.answer) \notin {Unknown, NotApplicable}

-----------------------------------------------------------------------------
(* Claims about the two worker pools                                       *)

\* the indices the preview pool has claimed and sent a request for: those
\* under way and those whose pass of the loop has ended
PreviewInFlight == { w \in DOMAIN panel.workers : panel.workers[w].pc = "awaiting" }
PreviewSettledAt(idx) ==
    Cardinality({ k \in DOMAIN panel.processedThreadIdsLocal :
                    panel.processedThreadIdsLocal[k] = panel.threadIds[idx + 1] })
PreviewClaims(idx) ==
    Cardinality({ w \in PreviewInFlight : panel.workers[w].idx = idx })
        + PreviewSettledAt(idx)

\* the requests the sync pool has sent for index idx
SyncClaims(idx) ==
    Cardinality({ k \in DOMAIN syncPanel.requests : syncPanel.requests[k] = idx })
SyncInFlight ==
    { w \in DOMAIN syncPanel.workers : syncPanel.workers[w].pc = "awaiting" }

\* C24: in both pools no index is claimed twice while a round runs, and
\* when the round's result is reported every index 0..N-1 has been claimed
\* exactly once: no thread is fetched twice and none is skipped.
C24_EachIndexClaimedExactlyOnce ==
    /\ \A idx \in 0..(Len(panel.threadIds) - 1) :
          /\ panel.isGenerating => PreviewClaims(idx) <= 1
          /\ panel.preview # Null => PreviewSettledAt(idx) = 1
    /\ \A idx \in 0..(Len(syncPanel.threads) - 1) :
          /\ SyncClaims(idx) <= 1
          /\ syncPanel.result # Null => SyncClaims(idx) = 1

\* n calls are no more than the limit allows; a limit that is not a number
\* allows none
AtMost(n, limit) ==
    IF limit.c = "Infinity" THEN TRUE
    ELSE IF limit.c = "NaN" THEN n = 0
    ELSE 2 * n <= limit.h

\* C25: at every moment of a round, in either pool, the requests to the qa
\* route that are in flight are no more than the concurrency limit and no
\* more than the candidates: at most min(C, N).
C25_InFlightWithinLimit ==
    /\ AtMost(Cardinality(PreviewInFlight), PREVIEW_CONCURRENCY(settings.concurrency))
    /\ Cardinality(PreviewInFlight) <= Len(panel.threadIds)
    /\ AtMost(Cardinality(SyncInFlight), SYNC_CONCURRENCY(syncPanel.env))
    /\ Cardinality(SyncInFlight) <= Len(syncPanel.threads)

\* both pools run with a limit of one and more candidates than that: each
\* has one request in flight and has moved past its first candidate
C25_Witness ==
    /\ settings.concurrency = Num(1)
    /\ Len(panel.threadIds) = 3
    /\ Cardinality(PreviewInFlight) = 1
    /\ panel.currentIndex = 2
    /\ Len(syncPanel.threads) = 4
    /\ Cardinality(SyncInFlight) = 1
    /\ syncPanel.cursor = 3

\* the preview round is over: its summary is reported, every index was
\* claimed and has settled, and no worker is waiting
PreviewRoundComplete ==
    /\ panel.preview # Null
    /\ ~panel.isGenerating
    /\ PreviewInFlight = {}
    /\ \A idx \in 0..(Len(panel.threadIds) - 1) : PreviewSettledAt(idx) = 1

\* the same of a run of the sync panel
SyncRoundComplete ==
    /\ syncPanel.result # Null
    /\ ~syncPanel.isProcessing
    /\ SyncInFlight = {}
    /\ \A idx \in 0..(Len(syncPanel.threads) - 1) :
           SyncClaims(idx) = 1 /\ syncPanel.threadStatuses[idx + 1] \in {"success", "error"}

\* C26: when every request sent eventually settles, a round that has
\* started eventually completes, in either pool: all N indices are claimed
\* and settled, the aggregate result is reported and no worker waits.
C26_RoundEventuallyCompletes ==
    /\ panel.isGenerating ~> PreviewRoundComplete
    /\ syncPanel.isProcessing ~> SyncRoundComplete

\* the results stand in the order their threads have in the list
InSourceOrder(details, threads) ==
    \A i, j \in DOMAIN details :
        i < j => PositionIn(threads, details[i].threadId)
                   < PositionIn(threads, details[j].threadId)

\* the entries of the threads that answered, in the order of the list
RECURSIVE EntriesInSourceOrder(_, _)
EntriesInSourceOrder(threads, details) ==
    IF threads = <<>> THEN <<>>
    ELSE LET mine == SelectSeq(details, LAMBDA d : d.threadId = Head(threads))
         IN consolidate(mine) \o EntriesInSourceOrder(Tail(threads), details)

\* C27: the per-thread results the sync panel reports, and the consolidated
\* entries built from them, are in the order of the thread list, in
\* whatever order the workers' requests completed.
C27_SyncResultsInSourceOrder ==
    syncPanel.result # Null
    => /\ InSourceOrder(syncPanel.result.details, syncPanel.threads)
       /\ syncPanel.result.consolidated
             = EntriesInSourceOrder(syncPanel.threads, syncPanel.result.details)

-----------------------------------------------------------------------------
(* Claims about the batch sync route                                       *)

\* the thread fails on the server: its detail cannot be fetched or its
\* extraction throws
FailsInBatch(threadId) ==
    \/ ~threadOutcome[threadId].detail
    \/ ~extractQuestionsAndAnswersFromThread(threadOutcome[threadId].llm).ok

\* C28: a request to the batch sync route with a session and thread ids is
\* answered with the result of every submitted thread, in whatever way
\* single threads fail: a failed thread counts as attempted with no entry
\* and every other thread carries its entries.
C28_BatchSurvivesThreadFailure ==
    (authLog.route = "sync" /\ authLog.cookie \in CookiesWithTokens
        /\ authLog.threadIds # <<>>)
    => /\ authLog.status = 200
       /\ authLog.body.processedThreads = Len(authLog.threadIds)
       /\ \A i \in DOMAIN authLog.threadIds :
              LET threadId == authLog.threadIds[i]
              IN /\ authLog.body.details[i].threadId = threadId
                 /\ authLog.body.details[i].questions
                       = IF FailsInBatch(threadId) THEN <<>>
                         ELSE extractQuestionsAndAnswersFromThread(
                                  threadOutcome[threadId].llm).entries

-----------------------------------------------------------------------------
(* Claims about what reconciling a round leaves alone                      *)

\* the thread ids of the previewed threads, for an ingest whose preview
\* recorded no attempted id
PreviewedIds ==
    IF panel.preview = Null THEN {}
    ELSE { panel.preview.threads[i].threadId : i \in DOMAIN panel.preview.threads }

\* C29: reconciling a preview sets lastPreviewAt and leaves lastFullIngestAt
\* and the processed ids as they were; reconciling an ingest sets
\* lastFullIngestAt, adds the round's ids to the processed ids and leaves
\* lastPreviewAt as it was; neither changes the rules or the preview limit.
C29_ReconcileTouchesOnlyItsMode ==
    [][ LET before == readIngestState(doc)
            after == readIngestState(doc')
            idsBefore == Range(before.processedThreadIds.a)
            idsAfter == Range(after.processedThreadIds.a)
        IN /\ PreviewEndsWell
              => /\ after.lastPreviewAt = Iso(now')
                 /\ after.lastFullIngestAt = before.lastFullIngestAt
                 /\ idsAfter = idsBefore
                 /\ after.rules = before.rules
                 /\ after.previewMaxThreads = before.previewMaxThreads
           /\ IngestEndsWell
              => /\ after.lastFullIngestAt = Iso(now')
                 /\ idsAfter # idsBefore
                 /\ idsBefore \cup Range(panel.latestPreviewThreadIds) \subseteq idsAfter
                 /\ idsAfter \subseteq idsBefore \cup Range(panel.latestPreviewThreadIds)
                                          \cup PreviewedIds
                 /\ after.lastPreviewAt = before.lastPreviewAt
                 /\ after.rules = before.rules
                 /\ after.previewMaxThreads = before.previewMaxThreads ]_vars

\* over a document that held id a, rules and a limit, a preview at one
\* instant and its ingest at a later one have been reconciled
C29_Witness ==
    /\ rounds # <<>>
    /\ panel.statusVariant = "success"
    /\ panel.preview = Null
    /\ upsertLog.status = 200
    /\ doc # NoDoc
    /\ doc.rules = Str(<<"q">>)
    /\ doc.previewMaxThreads = Num(4)
    /\ doc.lastPreviewAt = Iso(1)
    /\ doc.lastFullIngestAt = Iso(2)
    /\ {IdA, IdB} \subseteq ProcessedSet

\* a call whose read found a document that parses as an object
LoadedObject(c) ==
    /\ c.pc # "start"
    /\ c.met = "ok"
    /\ c.before # NoDoc
    /\ c.before \notin Unloadable

PositiveNumber(v) == v.k = "number" /\ v.c = "finite" /\ v.h > 0

\* C30: loading a document that parses as an object never throws, whatever
\* its properties hold, and the state loaded has the state's eight properties
\* and no other; processedThreadIds that is no array loads as the empty array,
\* rules that is no string loads as the empty string, and previewMaxThreads
\* that is no positive number loads as null.
C30_MalformedFieldsLoadAsDefaults ==
    \A i \in DOMAIN callers :
        LET c == callers[i]
        IN LoadedObject(c)
           => /\ c.pc # "threw"
              /\ DOMAIN c.current = StateFields
              /\ c.before.processedThreadIds.k # "array"
                    => c.current.processedThreadIds = Arr(<<>>)
              /\ c.before.rules.k # "string"
                    => c.current.rules = Str(<<>>)
              /\ ~PositiveNumber(c.before.previewMaxThreads)
                    => c.current.previewMaxThreads = Null

\* a readIngestState has loaded the document with a string for its ids, a
\* number for its rules, a limit of 0 and a property the state does not have
C30_Witness ==
    /\ callers # <<>>
    /\ callers[1].op = "readIngestState"
    /\ callers[1].pc = "done"
    /\ callers[1].before = MangledDoc
    /\ "legacy" \in DOMAIN callers[1].before
    /\ callers[1].result = defaultState

\* a numeric property as the file holds it when unset: absent or null
Unset(v) == v \in {Undefined, Null}

PositiveInteger(v) == PositiveNumber(v) /\ v.h % 2 = 0

\* C31: the document a write leaves is normalized: its processed ids hold no
\* id twice, its totalThreadsDetected is a finite number or unset, and its
\* previewMaxThreads is null or a positive integer.
C31_WrittenDocumentIsNormalized ==
    Writes > 0
    => /\ NoDuplicates(doc.processedThreadIds.a)
       /\ Unset(doc.totalThreadsDetected) \/ IsFinite(doc.totalThreadsDetected)
       /\ doc.previewMaxThreads = Null \/ PositiveInteger(doc.previewMaxThreads)

\* the valid items of the preview on the panel, and the thread ids its ingest
\* would report as processed
RoundItems ==
    IF panel.preview = Null THEN <<>>
    ELSE SelectSeq(IngestItems(panel.preview.threads), ValidItem)

RoundThreadIds ==
    IF panel.preview = Null THEN {}
    ELSE IF panel.latestPreviewThreadIds # <<>>
    THEN Range(panel.latestPreviewThreadIds)
    ELSE PreviewedIds

\* the (threadId, question) pairs that have a point in the store q
PairsIn(q) ==
    IF q = NoCollection THEN {}
    ELSE { <<q.points[id].payload.threadId, q.points[id].payload.question>> :
              id \in DOMAIN q.points }

PointIdsIn(q) == IF q = NoCollection THEN {} ELSE DOMAIN q.points

\* this step is an ingest whose upsert succeeded and whose state request
\* failed
IngestFailsAtState ==
    /\ upsertLog'.flip # upsertLog.flip
    /\ upsertLog'.status = 200
    /\ panel'.statusVariant = "error"

\* the preview on the panel has its points in the store and its threads
\* outside the processed ids
WrittenNotPersisted ==
    /\ ~panel.isGenerating
    /\ RoundItems # <<>>
    /\ \A i \in DOMAIN RoundItems : PairOf(RoundItems[i]) \in PairsIn(qdrant)
    /\ RoundThreadIds \cap ProcessedSet = {}

ListedIds == SelectSeq(Listing(mailbox), TruthyId)

FetchReturnsFirstIds ==
    fetchRun.pc = "returned"
    => fetchRun.result
         = SubSeq(ListedIds, 1, Min(fetchRun.maxThreads, Len(ListedIds)))

FetchAsksOnlyWhileNeeded ==
    \A j \in DOMAIN fetchRun.asked :
        j > 1 => /\ fetchRun.asked[j].pageToken # NoToken
                 /\ fetchRun.asked[j].collected < fetchRun.maxThreads

\* C33: fetchAllGmailThreadIds returns the first min(maxThreads, total) ids
\* of the pages put end to end, in their order; every request after the
\* first carries a token and is made with fewer than maxThreads ids
\* collected; and a call over a listing of finitely many pages returns.
C33_PaginationReturnsFirstIdsAndTerminates ==
    /\ [](FetchReturnsFirstIds /\ FetchAsksOnlyWhileNeeded)
    /\ (fetchRun.pc = "awaiting" ~> fetchRun.pc = "returned")

\* a call with maxThreads 2 over three pages has returned the first two ids,
\* cutting the third page, after three requests
C33_Witness ==
    /\ fetchRun.pc = "returned"
    /\ fetchRun.maxThreads = 2
    /\ mailbox = << <<IdC>>, <<>>, <<IdB, IdA>> >>
    /\ fetchRun.result = <<IdC, IdB>>
    /\ Len(fetchRun.asked) = 3

\* the properties an update supplies
SuppliedFields(update) == { f \in StateFields : update[f] # Undefined }

\* the document d holds what the update supplied
HoldsChange(d, update) ==
    \A f \in SuppliedFields(update) :
        IF f = "processedThreadIds"
        THEN IdsOf(update[f]) \ {EmptyId} \subseteq Range(d.processedThreadIds.a)
        ELSE d[f] = update[f]

\* calls i and j are two updates that supply different properties and have
\* both written and returned
DisjointUpdatesDone(i, j) ==
    /\ i # j
    /\ \A k \in {i, j} : /\ callers[k].op = "updateIngestState"
                          /\ callers[k].pc = "done"
                          /\ callers[k].wrote > 0
    /\ SuppliedFields(callers[i].arg) \cap SuppliedFields(callers[j].arg) = {}

\* C34 as claimed: after two updates that supply different properties have
\* both completed, the document holds the change of each.
C34_DisjointUpdatesBothPersist ==
    \A i, j \in DOMAIN callers :
        DisjointUpdatesDone(i, j)
        => HoldsChange(doc, callers[i].arg) /\ HoldsChange(doc, callers[j].arg)

\* C34 as amended: after two updates that supply different properties have
\* both completed, the document holds the change of the update that wrote
\* last, and it holds the other's change as well when the one that wrote last
\* had read the document after the other's write.
C34_LaterWritePersistsAndEarlierIfSeen ==
    \A i, j \in DOMAIN callers :
        (DisjointUpdatesDone(i, j) /\ callers[j].wrote = 2)
        => /\ HoldsChange(doc, callers[j].arg)
           /\ callers[j].seen = 1 => HoldsChange(doc, callers[i].arg)

\* an update of the rules and an update of the ids both read before either
\* wrote; the ids were written last and the rules are not in the document
C34_Witness ==
    /\ Len(callers) = 2
    /\ DisjointUpdatesDone(1, 2)
    /\ callers[1].arg.rules = Str(<<"r">>)
    /\ callers[2].arg.processedThreadIds = Arr(<<IdA>>)
    /\ callers[1].seen = 0 /\ callers[1].wrote = 1
    /\ callers[2].seen = 0 /\ callers[2].wrote = 2
    /\ IdA \in ProcessedSet
    /\ doc.rules # Str(<<"r">>)

\* count workers are min(C, n) for a whole number C of at least 1, which is
\* 5 when the setting is unset
StartsMinOfLimit(count, n, setting) ==
    \E C \in 1..Max(DefaultPreviewConcurrency, n) :
        /\ setting = Undefined => C = DefaultPreviewConcurrency
        /\ count = Min(C, n)

\* C35: whatever the concurrency setting holds, a pool that has candidates
\* starts min(C, N) workers for a whole number C of at least 1 (5 when the
\* setting is unset), so it starts at least one; and the result it reports
\* has every candidate attempted.
C35_PoolStartsAtLeastOneWorker ==
    /\ (panel.isGenerating /\ panel.threadIds # <<>>)
          => StartsMinOfLimit(Len(panel.workers), Len(panel.threadIds),
                              settings.concurrency)
    /\ (panel.preview # Null /\ ~panel.isGenerating)
          => panel.preview.processedThreads = Len(panel.threadIds)
    /\ syncPanel.isProcessing
          => StartsMinOfLimit(Len(syncPanel.workers), Len(syncPanel.threads),
                              syncPanel.env)
    /\ syncPanel.result # Null
          => Len(syncPanel.requests) = Len(syncPanel.threads)

\* the value returned is a state, as update and addProcessedThreads return
\* it, or a summary, as the state endpoint answers
IsState(v) == "processedThreadIds" \in DOMAIN v
IsSummary(v) == "processedThreads" \in DOMAIN v

\* C36: the state a call of update or addProcessedThreads returns is, field
\* for field, the document it left, as a read that follows at once loads it;
\* and the summary a POST to the state endpoint answers is the summary a GET
\* that follows at once answers.
C36_ReturnedStateIsThePersistedOne ==
    [][ /\ IsState(returned') => returned' = readIngestState(doc')
        /\ IsSummary(returned') => returned' = summarizeState(readIngestState(doc'))
      ]_vars

\* this step is an ingest whose upsert request did not return success
IngestFailsAtUpsert ==
    /\ upsertLog'.flip # upsertLog.flip
    /\ upsertLog'.status # 200

\* the last ingest failed at its upsert and its preview is still on the panel
UpsertFailedBefore ==
    /\ upsertLog.status \notin {0, 200}
    /\ panel.preview # Null
    /\ ~panel.isGenerating
    /\ panel.statusVariant = "error"

\* C37: the processed ids change only in an ingest step whose upsert
\* returned success; an ingest whose upsert fails leaves the document as it
\* was and ends in error with its preview kept; and the preview started next
\* lists the threads of that round again.
C37_ProcessedOnlyAfterUpsertSuccess ==
    [][ /\ ProcessedSet' # ProcessedSet
           => upsertLog'.flip # upsertLog.flip /\ upsertLog'.status = 200
        /\ IngestFailsAtUpsert
           => /\ doc' = doc
              /\ panel'.statusVariant = "error"
              /\ panel'.preview = panel.preview
        /\ (UpsertFailedBefore /\ Len(rounds') > Len(rounds) /\ listLog'.status = 200)
           => /\ listLog'.threadIds = panel.threadIds
              /\ Range(listLog'.threadIds) \cap ProcessedSet' = {} ]_vars

\* after an ingest whose upsert failed, the second preview has listed the
\* first one's threads again and none of them is among the processed ids
C37_Witness ==
    /\ Len(rounds) = 2
    /\ upsertLog.status = 500
    /\ panel.isGenerating
    /\ listLog.threadIds = panel.threadIds
    /\ panel.threadIds # <<>>
    /\ Range(panel.threadIds) \cap ProcessedSet = {}
    /\ PointCount = 0

\* C38: two different (threadId, question) pairs that have been upserted
\* have different point ids (the digest taken as collision-free, the ids
\* differ exactly when the hashed strings differ), so each has its own point;
\* a ':' at the end of the thread id or at the start of the question makes
\* no exception.
C38_DistinctPairsDistinctIds ==
    \A p1, p2 \in DOMAIN latest :
        p1 # p2
        => /\ createStablePointId(p1[1], p1[2]) # createStablePointId(p2[1], p2[2])
           /\ PointsOfPair(p1) # {}

\* C39: a POST to the state route or to the upsert route that carries no
\* session cookie decoding to tokens leaves the state document and the
\* vector store as they were.
C39_NoSessionNoMutation ==
    [][ (authLog' # authLog /\ authLog'.cookie \notin CookiesWithTokens)
        => doc' = doc /\ qdrant' = qdrant ]_vars

\* the callback's code is present and its state equals the state cookie
StateMatched(r) ==
    /\ Truthy(r.code)
    /\ r.storedState \in OAuthStateValues
    /\ r.storedState = r.state

\* the session cookie a completed exchange leaves in the jar
NewSession ==
    [value |-> encodeOAuthSessionCookie(Obj([tokens |-> GoogleTokens,
                                             profile |-> GoogleProfile,
                                             gmail |-> GmailProfile]))]

\* after a callback: the code is exchanged only for a matching state, the
\* session cookie is there only after a completed exchange, and the state
\* cookie is gone
CallbackSettled ==
    oauth.last.route = "callback" =>
        /\ ("getToken" \in oauth.last.calls) = StateMatched(oauth.last)
        /\ IF StateMatched(oauth.last) /\ oauth.last.outcome = "tokens"
           THEN oauth.sessionCookie = NewSession
           ELSE oauth.sessionCookie = Undefined
        /\ oauth.stateCookie = Undefined

\* a callback that follows a callback, with no start step in between,
\* leaves no session cookie
StateUsedOnce ==
    (oauth' # oauth /\ oauth.last.route = "callback"
        /\ oauth'.last.route = "callback")
    => oauth'.sessionCookie = Undefined /\ oauth'.last.calls = {}

\* C40: the callback exchanges the code and sets the session cookie only
\* when a code is present and the state parameter equals the state cookie of
\* the start step; every other callback leaves no session cookie, also when
\* one was there before; every callback removes the state cookie, so the
\* callback that follows it cannot use the same state again.
C40_CallbackSetsSessionOnlyOnMatchingState ==
    [](CallbackSettled) /\ [][StateUsedOnce]_vars

\* a callback with a matching state and a completed exchange has signed in
C40_Witness ==
    /\ oauth.last.route = "callback"
    /\ oauth.last.google = "connected"
    /\ oauth.last.state = oauth.last.storedState
    /\ oauth.sessionCookie = NewSession
    /\ oauth.stateCookie = Undefined

====
